---------------------------- MODULE Spec2Model ----------------------------
(***************************************************************************)
(* A model of the information-retrieval programs of this repository:      *)
(* posting-list intersection (lists.py), the Boolean query engine         *)
(* (boolean.py), the phrase engines (phrase_query.py,                      *)
(* positional_phrase_query.py) over the indexes built by biword_index.py   *)
(* and positional_index.py, and the spelling-correction engines            *)
(* (ngram_jaccard_correction.py, spelling_correction_edit.py).             *)
(*                                                                         *)
(* Python lists are sequences; Python indices are 0-based, so arr[i] of    *)
(* the source is arr[i + 1] here.  Python sets are sets, dicts are         *)
(* functions whose DOMAIN is the set of keys.                              *)
(***************************************************************************)
EXTENDS Integers, Sequences, FiniteSets, TLC

VARIABLES
    \* lists.py: one pair of posting lists and the two intersections of it
    list1, list2, result_linear, result_galloping, mismatch, measured,
    \* boolean.py: the loaded term index, the universal set, the last query
    \* (its lexemes), the tree it was written from, and what the call returned
    inverted_index, all_docs, query, query_ast, outcome,
    \* the phrase engines: the crawled documents, the two loaded indexes, the
    \* last phrase, the engines that have resolved it and what they returned
    crawled_pages, positional_index, biword_index, the_phrase, asked,
    positional_result, biword_result,
    \* the correction engines: the engine that runs, its vocabulary, the term
    \* index as it was loaded, and the results dict of the query loop
    engine, vocabulary, loaded_index, results,
    \* a session over the loaded indexes: the last query operation
    last_op,
    \* an index build: the builder that runs, the documents that cannot be
    \* read, the order in which the worker tasks have completed, the number
    \* of documents merged, the index and document-ID map under construction,
    \* the stage of the build, and the index file on disk
    builder, failing, completion_order, merged, built_index, doc_id_map,
    build_status, index_file,
    \* the start of a query program: how main got past loading its index
    startup

vars_lists == <<list1, list2, result_linear, result_galloping, mismatch, measured>>

vars_boolean == <<inverted_index, all_docs, query, query_ast, outcome>>

vars_phrase == <<crawled_pages, positional_index, biword_index, the_phrase, asked,
                 positional_result, biword_result>>

vars_correction == <<engine, vocabulary, loaded_index, results, last_op>>

vars_build == <<builder, failing, completion_order, merged, built_index, doc_id_map,
                build_status, index_file, startup>>

vars == <<list1, list2, result_linear, result_galloping, mismatch, measured,
          inverted_index, all_docs, query, query_ast, outcome,
          crawled_pages, positional_index, biword_index, the_phrase, asked,
          positional_result, biword_result,
          engine, vocabulary, loaded_index, results, last_op,
          builder, failing, completion_order, merged, built_index, doc_id_map,
          build_status, index_file, startup>>

-----------------------------------------------------------------------------
(* Generic helpers for Python built-ins. *)

Min(a, b) == IF a < b THEN a ELSE b

\* sorted(S) for a set of integers: the ascending list of its elements
RECURSIVE SortedSeq(_)
SortedSeq(S) ==
    IF S = {} THEN <<>>
    ELSE LET m == CHOOSE x \in S : \A y \in S : x <= y
         IN  <<m>> \o SortedSeq(S \ {m})

\* set(xs) for a list
Range(xs) == { xs[k] : k \in DOMAIN xs }

-----------------------------------------------------------------------------
(* lists.py, part 3: the two intersection algorithms. *)

\* the largest document ID of a posting list of the lists model
MaxDocId == 4

DocIds == 0 .. MaxDocId

\* the posting lists save_letter_lists/build_letter_lists produce: ascending,
\* duplicate-free lists of document IDs
AscLists == { SortedSeq(S) : S \in SUBSET DocIds }

\* the while loop of intersect_linear, from pointers i, j with result so far
RECURSIVE LinearLoop(_, _, _, _, _)
LinearLoop(l1, l2, i, j, result) ==
    IF i < Len(l1) /\ j < Len(l2)
    THEN IF l1[i + 1] = l2[j + 1]
         THEN LinearLoop(l1, l2, i + 1, j + 1, Append(result, l1[i + 1]))
         ELSE IF l1[i + 1] < l2[j + 1]
              THEN LinearLoop(l1, l2, i + 1, j, result)
              ELSE LinearLoop(l1, l2, i, j + 1, result)
    ELSE result

intersect_linear(l1, l2) == LinearLoop(l1, l2, 0, 0, <<>>)

\* a search that returns the place the target belongs at, found or not
binary_search_insertion_point(arr, target, low, high) ==
    low + Cardinality({ k \in low + 1 .. high : arr[k] < target })

\* binary_search over arr[low .. high - 1]; -1 when the target is not found
RECURSIVE binary_search(_, _, _, _)
binary_search(arr, target, low, high) ==
    IF low < high
    THEN LET mid == (low + high) \div 2
         IN  IF arr[mid + 1] = target THEN mid
             ELSE IF arr[mid + 1] < target
                  THEN binary_search(arr, target, mid + 1, high)
                  ELSE binary_search(arr, target, low, mid)
    ELSE -1

\* the probing loop of intersect_galloping: doubles hi while list2[hi] < element
RECURSIVE GallopProbe(_, _, _, _)
GallopProbe(l2, element, lo, hi) ==
    IF hi < Len(l2) /\ l2[hi + 1] < element
    THEN GallopProbe(l2, element, hi, hi * 2)
    ELSE [lo |-> lo, hi |-> hi]

\* one iteration of the for loop of intersect_galloping
GallopStep(l2, element, result) ==
    LET p   == GallopProbe(l2, element, 0, 1)
        hi  == Min(p.hi, Len(l2))
        pos == binary_search(l2, element, p.lo, hi)
    IN  IF pos # -1 THEN Append(result, element) ELSE result

RECURSIVE GallopLoop(_, _, _, _)
GallopLoop(l1, l2, k, result) ==
    IF k > Len(l1) THEN result
    ELSE GallopLoop(l1, l2, k + 1, GallopStep(l2, l1[k], result))

intersect_galloping(l1, l2) ==
    IF Len(l1) > Len(l2)
    THEN GallopLoop(l2, l1, 1, <<>>)
    ELSE GallopLoop(l1, l2, 1, <<>>)

\* sorted(xs) for a list of distinct integers
SortedList(xs) == SortedSeq(Range(xs))

-----------------------------------------------------------------------------
(* Text normalisation.  A document text or a query is the sequence of the  *)
(* lexemes the source's regular expressions find in it; str.lower,         *)
(* str.upper, the stop-word list and PorterStemmer.stem are tables over    *)
(* the words of the model.                                                 *)

\* str.lower() of a lexeme
Lower(w) ==
    CASE w = "Madrid" -> "madrid"
      [] w = "AND"    -> "and"
      [] w = "Not"    -> "not"
      [] OTHER        -> w

\* str.upper() of a lexeme
Upper(w) ==
    CASE w = "real"      -> "REAL"
      [] w = "Madrid"    -> "MADRID"
      [] w = "madrid"    -> "MADRID"
      [] w = "barcelona" -> "BARCELONA"
      [] w = "or"        -> "OR"
      [] w = "Not"       -> "NOT"
      [] OTHER           -> w

\* stopwords.words('english'), as far as the words of the model go
stop_words == {"the", "and", "or", "not"}

\* PorterStemmer.stem of a lower-case word
Stem(w) ==
    CASE w = "wins"  -> "win"
      [] w = "beats" -> "beat"
      [] OTHER       -> w

-----------------------------------------------------------------------------
(* inverted_index.py: the term index of a collection.  A collection is the *)
(* list of the documents' texts, document doc_id at position doc_id + 1,   *)
(* each text the list of its \w+ lexemes.                                  *)

\* preprocess_text of inverted_index.py: lower-case, drop the stop words,
\* stem what is left
RECURSIVE preprocess_text(_)
preprocess_text(text) ==
    IF text = <<>> THEN <<>>
    ELSE LET token == Lower(Head(text))
         IN  (IF token \notin stop_words THEN <<Stem(token)>> ELSE <<>>)
             \o preprocess_text(Tail(text))

\* the loop body of build_inverted_index for document doc_id
IndexDocument(index, doc_id, text) ==
    LET unique_tokens == Range(preprocess_text(text))
    IN  [t \in DOMAIN index \cup unique_tokens |->
            IF t \in unique_tokens
            THEN (IF t \in DOMAIN index THEN index[t] ELSE {}) \cup {doc_id}
            ELSE index[t]]

RECURSIVE BuildFrom(_, _, _)
BuildFrom(index, collection, doc_count) ==
    IF doc_count >= Len(collection) THEN index
    ELSE BuildFrom(IndexDocument(index, doc_count, collection[doc_count + 1]),
                   collection, doc_count + 1)

\* the dict with no key
EmptyDict == [t \in {} |-> {}]

build_inverted_index(collection) == BuildFrom(EmptyDict, collection, 0)

-----------------------------------------------------------------------------
(* boolean.py: tokenizer, recursive-descent parser and evaluation. *)

\* dict.get(key, set())
Get(index, key) == IF key \in DOMAIN index THEN index[key] ELSE {}

\* the update loop of build_all_docs over an enumeration of the dict's values
RECURSIVE UpdateAll(_, _, _)
UpdateAll(index, keys, acc) ==
    IF keys = {} THEN acc
    ELSE LET k == CHOOSE x \in keys : TRUE
         IN  UpdateAll(index, keys \ {k}, acc \cup index[k])

\* build_all_docs assigning the postings where it should update with them:
\* the universal set ends as the postings of one term
build_all_docs_overwrite(index) ==
    IF DOMAIN index = {} THEN {}
    ELSE index[CHOOSE k \in DOMAIN index : TRUE]

\* the universal set taken from a count of the index: set(range(len(index)))
build_all_docs_of_count(index) == 0 .. (Cardinality(DOMAIN index) - 1)

build_all_docs(index) == UpdateAll(index, DOMAIN index, {})

\* the standardisation of one lexeme in tokenize
Standardize(token) ==
    IF Upper(token) \in {"AND", "OR", "NOT"} THEN Upper(token)
    ELSE IF token \in {"(", ")"} THEN token
    ELSE Lower(token)

tokenize(q) == [k \in DOMAIN q |-> Standardize(q[k])]

\* Python's None, as current_token returns it past the end of the tokens
None == "None"

current_token(tokens, index) ==
    IF index < Len(tokens) THEN tokens[index + 1] ELSE None

\* what a parser method hands back: a normal return with the cursor after it,
\* or the exception raised by eat
Return(index, result) ==
    [raised |-> FALSE, index |-> index, result |-> result,
     expected |-> None, got |-> None]

Raise(index, expected, got) ==
    [raised |-> TRUE, index |-> index, result |-> {},
     expected |-> expected, got |-> got]

eat(tokens, index, token) ==
    IF current_token(tokens, index) = token
    THEN Return(index + 1, {})
    ELSE Raise(index, token, current_token(tokens, index))

\* result.union(right), result.intersection(right), all_docs.difference(operand)
union(result, right) == result \cup right

\* AND evaluated as a union
intersection_as_union(result, right) == result \cup right

intersection(result, right) == result \cap right

difference(universe, operand) == universe \ operand

RECURSIVE parse_or(_, _), OrLoop(_, _), parse_and(_, _), AndLoop(_, _)
RECURSIVE parse_not(_, _), parse_primary(_, _)

\* parser is the record of the fields tokens, inverted_index, all_docs;
\* the cursor self.index is passed and returned
parse_query(parser, index) == parse_or(parser, index)

parse_or(parser, index) ==
    LET first == parse_and(parser, index)
    IN  IF first.raised THEN first ELSE OrLoop(parser, first)

OrLoop(parser, acc) ==
    IF current_token(parser.tokens, acc.index) = "OR"
    THEN LET e     == eat(parser.tokens, acc.index, "OR")
             right == parse_and(parser, e.index)
         IN  IF e.raised THEN e
             ELSE IF right.raised THEN right
             ELSE OrLoop(parser, Return(right.index, union(acc.result, right.result)))
    ELSE acc

parse_and(parser, index) ==
    LET first == parse_not(parser, index)
    IN  IF first.raised THEN first ELSE AndLoop(parser, first)

AndLoop(parser, acc) ==
    IF current_token(parser.tokens, acc.index) = "AND"
    THEN LET e     == eat(parser.tokens, acc.index, "AND")
             right == parse_not(parser, e.index)
         IN  IF e.raised THEN e
             ELSE IF right.raised THEN right
             ELSE AndLoop(parser,
                          Return(right.index, intersection(acc.result, right.result)))
    ELSE acc

parse_not(parser, index) ==
    IF current_token(parser.tokens, index) = "NOT"
    THEN LET e       == eat(parser.tokens, index, "NOT")
             operand == parse_not(parser, e.index)
         IN  IF e.raised THEN e
             ELSE IF operand.raised THEN operand
             ELSE Return(operand.index, difference(parser.all_docs, operand.result))
    ELSE parse_primary(parser, index)

\* parse_primary leaving the cursor where it is when no token is left
parse_primary_stay_at_end(parser, index) ==
    LET token == current_token(parser.tokens, index)
    IN  IF token = None THEN Return(index, {})
        ELSE IF token = "("
        THEN LET open   == eat(parser.tokens, index, "(")
                 result == parse_query(parser, open.index)
                 close  == eat(parser.tokens, result.index, ")")
             IN  IF open.raised THEN open
                 ELSE IF result.raised THEN result
                 ELSE IF close.raised THEN close
                 ELSE Return(close.index, result.result)
        ELSE Return(index + 1, Get(parser.inverted_index, token))

parse_primary(parser, index) ==
    LET token == current_token(parser.tokens, index)
    IN  IF token = "("
        THEN LET open   == eat(parser.tokens, index, "(")
                 result == parse_query(parser, open.index)
                 close  == eat(parser.tokens, result.index, ")")
             IN  IF open.raised THEN open
                 ELSE IF result.raised THEN result
                 ELSE IF close.raised THEN close
                 ELSE Return(close.index, result.result)
        ELSE Return(index + 1, Get(parser.inverted_index, token))

process_boolean_query(q, index, universe) ==
    parse_query([tokens |-> tokenize(q), inverted_index |-> index,
                 all_docs |-> universe], 0)

-----------------------------------------------------------------------------
(* The queries and collections the Boolean engine is run on. *)

\* the terms Boolean queries are written with
QueryTerms == {"real", "madrid", "barcelona"}

\* the words generated documents are written with
DocWords == {"real", "barcelona"}

\* the most operators (AND, OR, NOT) of a generated well-formed query
MaxOps == 2

\* the most lexemes of a generated arbitrary query
MaxQueryLen == 3

\* the most documents of a generated collection
MaxDocs == 2

\* the most words of a generated document
MaxTextLen == 2

\* all lists of at most n elements of S
SeqsUpTo(S, n) == UNION { [1 .. k -> S] : k \in 0 .. n }

\* the documents of the end-to-end scenario: 0 "real madrid wins",
\* 1 "barcelona beats real madrid", 2 "transfer news today"
ExampleCollection ==
    << <<"real", "madrid", "wins">>,
       <<"barcelona", "beats", "real", "madrid">>,
       <<"transfer", "news", "today">> >>

Collections ==
    SeqsUpTo(SeqsUpTo(DocWords, MaxTextLen), MaxDocs) \cup {ExampleCollection}

\* query trees: a term, NOT of a tree, AND / OR of two trees
TermNode(t) == [op |-> "TERM", term |-> t]

NotNode(a) == [op |-> "NOT", operand |-> a]

BinNode(o, a, b) == [op |-> o, left |-> a, right |-> b]

\* the marker of a query that was not written from a tree
NoAst == [op |-> "NONE"]

\* the trees with exactly n operators
RECURSIVE TreesOfSize(_)
TreesOfSize(n) ==
    IF n = 0 THEN { TermNode(t) : t \in QueryTerms }
    ELSE { NotNode(a) : a \in TreesOfSize(n - 1) }
         \cup UNION { { BinNode(o, a, b) : o \in {"AND", "OR"},
                                           a \in TreesOfSize(k),
                                           b \in TreesOfSize(n - 1 - k) }
                      : k \in 0 .. n - 1 }

Trees == UNION { TreesOfSize(n) : n \in 0 .. MaxOps }

\* binding strength of a tree's top operator: OR 1, AND 2, NOT 3, term 4
Strength(a) ==
    CASE a.op = "OR"  -> 1
      [] a.op = "AND" -> 2
      [] a.op = "NOT" -> 3
      [] OTHER        -> 4

\* the tokens of a tree written where an operand of strength >= level is
\* expected: parentheses exactly where the grammar needs them
RECURSIVE Unparse(_, _)
Unparse(a, level) ==
    LET bare ==
            CASE a.op = "TERM" -> <<a.term>>
              [] a.op = "NOT"  -> <<"NOT">> \o Unparse(a.operand, 3)
              [] a.op = "AND"  -> Unparse(a.left, 2) \o <<"AND">> \o Unparse(a.right, 3)
              [] a.op = "OR"   -> Unparse(a.left, 1) \o <<"OR">> \o Unparse(a.right, 2)
    IN  IF Strength(a) < level THEN <<"(">> \o bare \o <<")">> ELSE bare

\* a spelling of a token as the user may type it
RawOf(token) ==
    CASE token = "OR"     -> "or"
      [] token = "NOT"    -> "Not"
      [] token = "madrid" -> "Madrid"
      [] OTHER            -> token

QueryOfTree(a) ==
    LET tokens == Unparse(a, 1) IN [k \in DOMAIN tokens |-> RawOf(tokens[k])]

\* the value of a tree: a term is its posting set, AND is intersection, OR is
\* union, NOT is the complement in the universal set
RECURSIVE Eval(_, _, _)
Eval(a, index, universe) ==
    CASE a.op = "TERM" -> IF a.term \in DOMAIN index THEN index[a.term] ELSE {}
      [] a.op = "NOT"  -> universe \ Eval(a.operand, index, universe)
      [] a.op = "AND"  -> Eval(a.left, index, universe) \cap Eval(a.right, index, universe)
      [] a.op = "OR"   -> Eval(a.left, index, universe) \cup Eval(a.right, index, universe)

\* the lexemes arbitrary queries are written with
RawLexemes == {"real", "Madrid", "AND", "or", "Not", "(", ")"}

RawQueries == SeqsUpTo(RawLexemes, MaxQueryLen)

\* the outcome before any query has been processed
NoOutcome == [raised |-> FALSE, index |-> -1, result |-> {},
              expected |-> None, got |-> None]

-----------------------------------------------------------------------------
(* Characters of the words of the model, for len(), for the [a-zA-Z]+       *)
(* lexemes of the biword and positional builders, and for sorted().         *)

\* the characters of a word, in order
Chars(w) ==
    CASE w = "real"      -> <<"r", "e", "a", "l">>
      [] w = "madrid"    -> <<"m", "a", "d", "r", "i", "d">>
      [] w = "barcelona" -> <<"b", "a", "r", "c", "e", "l", "o", "n", "a">>
      [] w = "wins"      -> <<"w", "i", "n", "s">>
      [] w = "win"       -> <<"w", "i", "n">>
      [] w = "beats"     -> <<"b", "e", "a", "t", "s">>
      [] w = "beat"      -> <<"b", "e", "a", "t">>
      [] w = "transfer"  -> <<"t", "r", "a", "n", "s", "f", "e", "r">>
      [] w = "news"      -> <<"n", "e", "w", "s">>
      [] w = "today"     -> <<"t", "o", "d", "a", "y">>
      [] w = "the"       -> <<"t", "h", "e">>
      [] w = "and"       -> <<"a", "n", "d">>
      [] w = "or"        -> <<"o", "r">>
      [] w = "not"       -> <<"n", "o", "t">>
      [] w = "x"         -> <<"x">>
      [] w = "read"      -> <<"r", "e", "a", "d">>
      [] w = "relal"     -> <<"r", "e", "l", "a", "l">>
      [] w = "mdrid"     -> <<"m", "d", "r", "i", "d">>
      [] w = "reals"     -> <<"r", "e", "a", "l", "s">>
      [] w = "realm"     -> <<"r", "e", "a", "l", "m">>
      [] w = "areal"     -> <<"a", "r", "e", "a", "l">>
      [] w = "meal"      -> <<"m", "e", "a", "l">>
      [] w = "deal"      -> <<"d", "e", "a", "l">>
      [] w = "seal"      -> <<"s", "e", "a", "l">>
      [] w = "heal"      -> <<"h", "e", "a", "l">>

\* len(word)
StrLen(w) == Len(Chars(w))

\* the lexeme consists of letters only, so \b[a-zA-Z]+\b finds it
IsAlpha(w) == \A k \in DOMAIN Chars(w) : Chars(w)[k] \notin {"0", "1", "2", "3", "4",
                                                            "5", "6", "7", "8", "9", "_"}

\* the words of the model in the order of Python's string comparison
WordOrder == <<"and", "areal", "barcelona", "beat", "beats", "deal", "heal", "madrid",
               "mdrid", "meal", "news", "not", "or", "read", "real", "realm", "reals",
               "relal", "seal", "the", "today", "transfer", "win", "wins", "x">>

Rank(w) == CHOOSE k \in DOMAIN WordOrder : WordOrder[k] = w

\* str(n) of a non-negative integer: its decimal digits
Digit(d) ==
    CASE d = 0 -> "0" [] d = 1 -> "1" [] d = 2 -> "2" [] d = 3 -> "3" [] d = 4 -> "4"
      [] d = 5 -> "5" [] d = 6 -> "6" [] d = 7 -> "7" [] d = 8 -> "8" [] d = 9 -> "9"

RECURSIVE StrOfInt(_)
StrOfInt(n) == IF n < 10 THEN <<Digit(n)>> ELSE StrOfInt(n \div 10) \o <<Digit(n % 10)>>

\* int(s) of a string of decimal digits
DigitValue(c) == CHOOSE d \in 0 .. 9 : Digit(d) = c

RECURSIVE IntOfStr(_)
IntOfStr(cs) ==
    IF Len(cs) = 1 THEN DigitValue(cs[1])
    ELSE 10 * IntOfStr(SubSeq(cs, 1, Len(cs) - 1)) + DigitValue(cs[Len(cs)])

\* ','.join(parts) for a list of strings
RECURSIVE JoinComma(_)
JoinComma(parts) ==
    IF parts = <<>> THEN <<>>
    ELSE IF Len(parts) = 1 THEN parts[1]
    ELSE parts[1] \o <<",">> \o JoinComma(Tail(parts))

\* s.split(','): the pieces between the commas, with current the piece so far
RECURSIVE SplitFrom(_, _)
SplitFrom(cs, current) ==
    IF cs = <<>> THEN <<current>>
    ELSE IF Head(cs) = "," THEN <<current>> \o SplitFrom(Tail(cs), <<>>)
    ELSE SplitFrom(Tail(cs), Append(current, Head(cs)))

SplitComma(cs) == SplitFrom(cs, <<>>)

\* map(str, ints)
StrsOfInts(ids) == [k \in DOMAIN ids |-> StrOfInt(ids[k])]

-----------------------------------------------------------------------------
(* positional_index.py: the positional index of a collection. *)

\* preprocess_text of positional_index.py: letters-only lexemes, lower-case,
\* without stop words and one-letter words, stemmed
RECURSIVE preprocess_text_positional(_)
preprocess_text_positional(text) ==
    IF text = <<>> THEN <<>>
    ELSE LET token == Lower(Head(text))
         IN  (IF IsAlpha(token) /\ token \notin stop_words /\ StrLen(token) > 1
              THEN <<Stem(token)>> ELSE <<>>)
             \o preprocess_text_positional(Tail(text))

\* the enumerate loop of process_document: positions[token].append(position)
RECURSIVE PositionsLoop(_, _, _)
PositionsLoop(tokens, position, positions) ==
    IF position >= Len(tokens) THEN positions
    ELSE LET token == tokens[position + 1]
             old   == IF token \in DOMAIN positions THEN positions[token] ELSE <<>>
         IN  PositionsLoop(tokens, position + 1,
                 [t \in DOMAIN positions \cup {token} |->
                     IF t = token THEN Append(old, position) ELSE positions[t]])

\* what process_document of positional_index.py returns besides the doc_id
process_document_positional(text) ==
    PositionsLoop(preprocess_text_positional(text), 0, EmptyDict)

\* the merge of one document's positions:
\* positional_index[token][doc_id].extend(pos_list) for every token
MergePositions(index, doc_id, positions) ==
    [t \in DOMAIN index \cup DOMAIN positions |->
        IF t \in DOMAIN positions
        THEN LET postings == IF t \in DOMAIN index THEN index[t] ELSE EmptyDict
                 old      == IF doc_id \in DOMAIN postings THEN postings[doc_id] ELSE <<>>
             IN  [d \in DOMAIN postings \cup {doc_id} |->
                     IF d = doc_id THEN old \o positions[t] ELSE postings[d]]
        ELSE index[t]]

\* the loop over the futures, in the order of submission
RECURSIVE BuildPositionalFrom(_, _, _)
BuildPositionalFrom(index, collection, doc_id) ==
    IF doc_id >= Len(collection) THEN index
    ELSE BuildPositionalFrom(
             MergePositions(index, doc_id,
                            process_document_positional(collection[doc_id + 1])),
             collection, doc_id + 1)

build_positional_index(collection) == BuildPositionalFrom(EmptyDict, collection, 0)

\* f"{doc_id}:{','.join(map(str, positions))}", with the ";" that "; ".join
\* puts after every group but the last
PostingGroup(doc_id, positions, last) ==
    StrOfInt(doc_id) \o <<":">> \o JoinComma(StrsOfInts(positions))
        \o (IF last THEN <<>> ELSE <<";">>)

\* the line save_positional_index writes for a term: its space-separated
\* fields, the term and one group per document in ascending doc_id order
PositionalLine(term, postings) ==
    LET ids == SortedSeq(DOMAIN postings)
    IN  <<term>> \o [k \in DOMAIN ids |->
                        PostingGroup(ids[k], postings[ids[k]], k = Len(ids))]

\* sorted(positional_index.items()): the terms in string order
RECURSIVE SortedWords(_)
SortedWords(keys) ==
    IF keys = {} THEN <<>>
    ELSE LET first == CHOOSE a \in keys : \A b \in keys : Rank(a) <= Rank(b)
         IN  <<first>> \o SortedWords(keys \ {first})

save_positional_index(index) ==
    LET terms == SortedWords(DOMAIN index)
    IN  [k \in DOMAIN terms |-> PositionalLine(terms[k], index[terms[k]])]

-----------------------------------------------------------------------------
(* biword_index.py: the biword index of a collection and its file. *)

\* preprocess_text of biword_index.py: letters-only lexemes, lower-case,
\* without stop words, stemmed
RECURSIVE preprocess_text_biword(_)
preprocess_text_biword(text) ==
    IF text = <<>> THEN <<>>
    ELSE LET token == Lower(Head(text))
         IN  (IF IsAlpha(token) /\ token \notin stop_words
              THEN <<Stem(token)>> ELSE <<>>)
             \o preprocess_text_biword(Tail(text))

\* the biwords process_document returns: the adjacent pairs of tokens that are
\* both longer than one character
RECURSIVE BiwordsFrom(_, _)
BiwordsFrom(tokens, i) ==
    IF i >= Len(tokens) - 1 THEN <<>>
    ELSE (IF StrLen(tokens[i + 1]) > 1 /\ StrLen(tokens[i + 2]) > 1
          THEN << <<tokens[i + 1], tokens[i + 2]>> >> ELSE <<>>)
         \o BiwordsFrom(tokens, i + 1)

process_document_biword(text) == BiwordsFrom(preprocess_text_biword(text), 0)

\* the merge of one document's biwords: biword_index[biword].add(doc_id)
MergeBiwords(index, doc_id, biwords) ==
    [b \in DOMAIN index \cup Range(biwords) |->
        IF b \in Range(biwords)
        THEN (IF b \in DOMAIN index THEN index[b] ELSE {}) \cup {doc_id}
        ELSE index[b]]

RECURSIVE BuildBiwordFrom(_, _, _)
BuildBiwordFrom(index, collection, doc_id) ==
    IF doc_id >= Len(collection) THEN index
    ELSE BuildBiwordFrom(
             MergeBiwords(index, doc_id, process_document_biword(collection[doc_id + 1])),
             collection, doc_id + 1)

build_biword_index(collection) == BuildBiwordFrom(EmptyDict, collection, 0)

\* sorted(biword_index.items()): the keys by first word, then second word
BiwordBefore(a, b) ==
    \/ Rank(a[1]) < Rank(b[1])
    \/ a[1] = b[1] /\ Rank(a[2]) < Rank(b[2])

RECURSIVE SortedBiwords(_)
SortedBiwords(keys) ==
    IF keys = {} THEN <<>>
    ELSE LET first == CHOOSE a \in keys : \A b \in keys \ {a} : BiwordBefore(a, b)
         IN  <<first>> \o SortedBiwords(keys \ {first})

\* the line save_biword_index writes for a biword: its three space-separated
\* fields, the key "t1_t2", str(df) and the comma-joined posting list
BiwordLine(biword, doc_ids) ==
    << biword[1] \o "_" \o biword[2],
       StrOfInt(Cardinality(doc_ids)),
       JoinComma(StrsOfInts(SortedSeq(doc_ids))) >>

\* save_biword_index with the threshold off by one: len(doc_ids) > 2
RECURSIVE SaveBiwordLinesOver2(_, _)
SaveBiwordLinesOver2(index, keys) ==
    IF keys = <<>> THEN <<>>
    ELSE (IF Cardinality(index[Head(keys)]) > 2
          THEN <<BiwordLine(Head(keys), index[Head(keys)])>> ELSE <<>>)
         \o SaveBiwordLinesOver2(index, Tail(keys))

\* the file save_biword_index writes: a line for every biword that more than
\* one document has
RECURSIVE SaveBiwordLines(_, _)
SaveBiwordLines(index, keys) ==
    IF keys = <<>> THEN <<>>
    ELSE (IF Cardinality(index[Head(keys)]) > 1
          THEN <<BiwordLine(Head(keys), index[Head(keys)])>> ELSE <<>>)
         \o SaveBiwordLines(index, Tail(keys))

save_biword_index(index) == SaveBiwordLines(index, SortedBiwords(DOMAIN index))

-----------------------------------------------------------------------------
(* phrase_query.py: loading the biword file and biword resolution. *)

\* set(map(int, s.split(',')))
ParsePostings(cs) ==
    LET pieces == SplitComma(cs) IN { IntOfStr(pieces[k]) : k \in DOMAIN pieces }

\* load_biword_index reading the posting list from the df field, parts[1]
RECURSIVE LoadBiwordLinesDfField(_, _)
LoadBiwordLinesDfField(lines, index) ==
    IF lines = <<>> THEN index
    ELSE LET parts == Head(lines)
         IN  IF Len(parts) < 3 THEN LoadBiwordLinesDfField(Tail(lines), index)
             ELSE LoadBiwordLinesDfField(Tail(lines),
                      [b \in DOMAIN index \cup {parts[1]} |->
                          IF b = parts[1] THEN ParsePostings(parts[2]) ELSE index[b]])

\* the loop of load_biword_index over the lines of the file; a later line of
\* the same key replaces an earlier one
RECURSIVE LoadBiwordLines(_, _)
LoadBiwordLines(lines, index) ==
    IF lines = <<>> THEN index
    ELSE LET parts == Head(lines)
         IN  IF Len(parts) < 3 THEN LoadBiwordLines(Tail(lines), index)
             ELSE LoadBiwordLines(Tail(lines),
                      [b \in DOMAIN index \cup {parts[1]} |->
                          IF b = parts[1] THEN ParsePostings(parts[3]) ELSE index[b]])

load_biword_index(lines) == LoadBiwordLines(lines, EmptyDict)

\* phrase.lower().split()
LowerWords(phrase) == [k \in DOMAIN phrase |-> Lower(phrase[k])]

phrase_to_biwords(phrase) ==
    LET stemmed_words == [k \in DOMAIN phrase |-> Stem(Lower(phrase[k]))]
    IN  [i \in 1 .. Len(stemmed_words) - 1 |->
            stemmed_words[i] \o "_" \o stemmed_words[i + 1]]

\* set.intersection(*doc_lists) for a non-empty list of sets
RECURSIVE IntersectAll(_)
IntersectAll(doc_lists) ==
    IF Len(doc_lists) = 1 THEN doc_lists[1]
    ELSE doc_lists[1] \cap IntersectAll(Tail(doc_lists))

\* retrieve_documents intersecting only the posting sets that are not empty
retrieve_documents_skip_missing(phrase, index) ==
    LET biwords   == phrase_to_biwords(phrase)
        doc_lists == [k \in DOMAIN biwords |-> Get(index, biwords[k])]
        present   == SelectSeq(doc_lists, LAMBDA docs : docs # {})
    IN  IF present = <<>> THEN {} ELSE IntersectAll(present)

retrieve_documents(phrase, index) ==
    LET biwords   == phrase_to_biwords(phrase)
        doc_lists == [k \in DOMAIN biwords |-> Get(index, biwords[k])]
    IN  IF biwords = <<>> THEN {} ELSE IntersectAll(doc_lists)

-----------------------------------------------------------------------------
(* positional_phrase_query.py: loading the positional file and positional  *)
(* resolution.                                                             *)

\* posting.rstrip(';')
RECURSIVE RStripSemicolon(_)
RStripSemicolon(cs) ==
    IF cs # <<>> /\ cs[Len(cs)] = ";" THEN RStripSemicolon(SubSeq(cs, 1, Len(cs) - 1))
    ELSE cs

\* doc_id, positions = posting.split(':') for a posting with one colon
BeforeColon(cs) == SubSeq(cs, 1, (CHOOSE k \in DOMAIN cs : cs[k] = ":") - 1)

\* the two sides of posting.split(':') taken the wrong way round
AfterColonSwapped(cs) == BeforeColon(cs)

AfterColon(cs) == SubSeq(cs, (CHOOSE k \in DOMAIN cs : cs[k] = ":") + 1, Len(cs))

\* list(map(int, positions.split(',')))
ParsePositions(cs) ==
    LET pieces == SplitComma(cs) IN [k \in DOMAIN pieces |-> IntOfStr(pieces[k])]

\* the loop over the postings of one line: positional_index[term][doc_id] = positions
RECURSIVE LoadPostings(_, _)
LoadPostings(postings, docs) ==
    IF postings = <<>> THEN docs
    ELSE LET posting == RStripSemicolon(Head(postings))
             doc_id  == IntOfStr(BeforeColon(posting))
         IN  LoadPostings(Tail(postings),
                 [d \in DOMAIN docs \cup {doc_id} |->
                     IF d = doc_id THEN ParsePositions(AfterColon(posting)) ELSE docs[d]])

\* the loop of load_positional_index over the lines of a file; the term of
\* a line becomes a key of the defaultdict with its first posting, so a line
\* of a term alone adds nothing
RECURSIVE LoadPositionalLines(_, _)
LoadPositionalLines(lines, index) ==
    IF lines = <<>> THEN index
    ELSE LET term == Head(lines)[1]
             old  == IF term \in DOMAIN index THEN index[term] ELSE EmptyDict
         IN  IF Tail(Head(lines)) = <<>> THEN LoadPositionalLines(Tail(lines), index)
             ELSE LoadPositionalLines(Tail(lines),
                      [t \in DOMAIN index \cup {term} |->
                          IF t = term THEN LoadPostings(Tail(Head(lines)), old)
                          ELSE index[t]])

load_positional_index(lines) == LoadPositionalLines(lines, EmptyDict)

\* set(positional_index.get(word, {}).keys())
DocKeys(index, word) == IF word \in DOMAIN index THEN DOMAIN index[word] ELSE {}

\* the prefilter loop: result_docs &= current_docs for the words after the first
RECURSIVE PrefilterLoop(_, _, _, _)
PrefilterLoop(index, words, i, result_docs) ==
    IF i >= Len(words) THEN result_docs
    ELSE PrefilterLoop(index, words, i + 1, result_docs \cap DocKeys(index, words[i + 1]))

\* x in xs for a list
RECURSIVE InList(_, _)
InList(x, xs) ==
    IF xs = <<>> THEN FALSE
    ELSE IF Head(xs) = x THEN TRUE ELSE InList(x, Tail(xs))

\* the test of a start with any() where the source has all()
RECURSIVE AnyFollows(_, _, _)
AnyFollows(positions, pos, i) ==
    IF i >= Len(positions) THEN FALSE
    ELSE IF InList(pos + i, positions[i + 1]) THEN TRUE
    ELSE AnyFollows(positions, pos, i + 1)

\* all((pos + i) in positions[i] for i in range(1, len(words))), from index i
RECURSIVE AllFollow(_, _, _)
AllFollow(positions, pos, i) ==
    IF i >= Len(positions) THEN TRUE
    ELSE IF InList(pos + i, positions[i + 1]) THEN AllFollow(positions, pos, i + 1)
    ELSE FALSE

\* the loop over positions[0], which breaks at the first start that matches
RECURSIVE AnyStart(_, _)
AnyStart(positions, starts) ==
    IF starts = <<>> THEN FALSE
    ELSE IF AllFollow(positions, Head(starts), 1) THEN TRUE
    ELSE AnyStart(positions, Tail(starts))

\* the test of one candidate document in phrase_query
DocMatches(index, words, doc_id) ==
    LET positions == [k \in DOMAIN words |-> index[words[k]][doc_id]]
    IN  AnyStart(positions, positions[1])

\* phrase_query returning the documents of the first word, without the
\* intersection with the other words' documents and without the position test
phrase_query_first_word(phrase, index) ==
    IF phrase = <<>> THEN {} ELSE DocKeys(index, Lower(phrase[1]))

phrase_query(phrase, index) ==
    LET words == LowerWords(phrase)
    IN  IF words = <<>> THEN {}
        ELSE LET result_docs == PrefilterLoop(index, words, 1, DocKeys(index, words[1]))
             IN  { doc_id \in result_docs : DocMatches(index, words, doc_id) }

\* the positional index after phrase_query has read
\* positional_index[word][doc_id] for every word and every document of docs:
\* reading a defaultdict under a key it lacks adds the key
TouchedIndex(index, words, docs) ==
    LET touched == IF docs = {} THEN {} ELSE Range(words)
    IN  [w \in DOMAIN index \cup touched |->
            LET postings == IF w \in DOMAIN index THEN index[w] ELSE EmptyDict
            IN  [d \in DOMAIN postings \cup (IF w \in touched THEN docs ELSE {}) |->
                    IF d \in DOMAIN postings THEN postings[d] ELSE <<>>]]

\* the positional index as a call of phrase_query leaves it
phrase_query_index(phrase, index) ==
    LET words == LowerWords(phrase)
    IN  IF words = <<>> THEN index
        ELSE TouchedIndex(index, words,
                          PrefilterLoop(index, words, 1, DocKeys(index, words[1])))

-----------------------------------------------------------------------------
(* The term index file: save_inverted_index of inverted_index.py and the   *)
(* loaders of the correction engines.                                      *)

\* the line save_inverted_index writes for a term: term, str(df) and the
\* comma-joined ascending posting list
TermLine(term, postings) ==
    << term, StrOfInt(Cardinality(postings)),
       JoinComma(StrsOfInts(SortedSeq(postings))) >>

save_inverted_index(index) ==
    LET terms == SortedWords(DOMAIN index)
    IN  [k \in DOMAIN terms |-> TermLine(terms[k], index[terms[k]])]

\* the dict a loader fills, with the order in which its keys were inserted
\* (the order in which Python iterates over it)
EmptyOrdered == [keys |-> <<>>, map |-> EmptyDict]

\* d[key] = value for such a dict: a new key goes last, an old key keeps
\* its place
Assign(d, key, value) ==
    [keys |-> IF key \in DOMAIN d.map THEN d.keys ELSE Append(d.keys, key),
     map  |-> [k \in DOMAIN d.map \cup {key} |-> IF k = key THEN value ELSE d.map[k]]]

\* load_vocabulary_with_frequency: vocabulary[parts[0]] = int(parts[1])
RECURSIVE LoadVocabularyLines(_, _)
LoadVocabularyLines(lines, vocab) ==
    IF lines = <<>> THEN vocab
    ELSE LoadVocabularyLines(Tail(lines),
             Assign(vocab, Head(lines)[1], IntOfStr(Head(lines)[2])))

load_vocabulary_with_frequency(lines) == LoadVocabularyLines(lines, EmptyOrdered)

\* load_inverted_index of the correction engines:
\* set(map(int, parts[2].split(','))) if len(parts) > 2 else set()
RECURSIVE LoadIndexLines(_, _)
LoadIndexLines(lines, index) ==
    IF lines = <<>> THEN index
    ELSE LET parts    == Head(lines)
             postings == IF Len(parts) > 2 THEN ParsePostings(parts[3]) ELSE {}
         IN  LoadIndexLines(Tail(lines),
                 [t \in DOMAIN index \cup {parts[1]} |->
                     IF t = parts[1] THEN postings ELSE index[t]])

load_inverted_index_correction(lines) == LoadIndexLines(lines, EmptyDict)

-----------------------------------------------------------------------------
(* ngram_jaccard_correction.py and spelling_correction_edit.py: candidates *)
(* and alternative queries.                                                *)

\* find_jaccard_candidates: top_n, min_df and, as the fraction
\* min_similarity_num / min_similarity_den, min_similarity = 0.3
jaccard_top_n == 7

min_df == 20

min_similarity_num == 3

min_similarity_den == 10

\* find_edit_distance_candidates: max_distance and top_n
max_distance == 2

edit_top_n == 5

\* generate_alternative_queries of ngram_jaccard_correction.py
max_alternatives == 10

\* the alternatives process_queries keeps per query
kept_alternatives == 3

\* get_ngrams(word, n): the substrings of n characters
get_ngrams(word, n) ==
    { SubSeq(Chars(word), i + 1, i + n) : i \in 0 .. StrLen(word) - n }

combined_ngrams(word) == get_ngrams(word, 2) \cup get_ngrams(word, 3)

\* jaccard_similarity as the fraction <<numerator, denominator>>; 0 for an
\* empty union
jaccard_similarity(set1, set2) ==
    IF set1 \cup set2 = {} THEN <<0, 1>>
    ELSE <<Cardinality(set1 \cap set2), Cardinality(set1 \cup set2)>>

Min3(a, b, c) == Min(a, Min(b, c))

\* one row of the table of Levenshtein.distance: row[j + 1] is the
\* distance of the characters read so far of a, the last of them ch, and
\* the first j characters of b; prev is the row before ch was read
RECURSIVE DistanceRow(_, _, _, _)
DistanceRow(prev, ch, b, row) ==
    IF Len(row) = Len(prev) THEN row
    ELSE LET j == Len(row)
         IN  DistanceRow(prev, ch, b,
                 Append(row, Min3(prev[j + 1] + 1, row[j] + 1,
                                  prev[j] + (IF ch = b[j] THEN 0 ELSE 1))))

RECURSIVE DistanceRows(_, _, _)
DistanceRows(a, b, prev) ==
    IF a = <<>> THEN prev[Len(prev)]
    ELSE DistanceRows(Tail(a), b, DistanceRow(prev, Head(a), b, <<prev[1] + 1>>))

\* Levenshtein.distance of two character lists
EditDistance(a, b) == DistanceRows(a, b, [j \in 1 .. Len(b) + 1 |-> j - 1])

\* the words a correction engine meets: query words and vocabulary terms
CorrectionWords ==
    {"real", "read", "madrid", "mdrid", "relal", "x",
     "reals", "realm", "areal", "meal", "deal", "seal", "heal"}

\* Levenshtein.distance over the words of the model
DistanceTable ==
    [pair \in CorrectionWords \X CorrectionWords |->
        EditDistance(Chars(pair[1]), Chars(pair[2]))]

Levenshtein_distance(word, vocab_word) == DistanceTable[<<word, vocab_word>>]

\* a sort key <<n, d, k>> is before another when the fraction n/d is
\* smaller, or the fractions are equal and k is smaller
KeyBefore(a, b) ==
    \/ a[1] * b[2] < b[1] * a[2]
    \/ a[1] * b[2] = b[1] * a[2] /\ a[3] < b[3]

\* list.sort by the field key: stable, items of equal key keep their order
RECURSIVE InsertByKey(_, _)
InsertByKey(sorted, item) ==
    IF sorted = <<>> THEN <<item>>
    ELSE IF KeyBefore(item.key, Head(sorted).key) THEN <<item>> \o sorted
    ELSE <<Head(sorted)>> \o InsertByKey(Tail(sorted), item)

RECURSIVE SortByKey(_)
SortByKey(items) ==
    IF items = <<>> THEN <<>>
    ELSE InsertByKey(SortByKey(SubSeq(items, 1, Len(items) - 1)), items[Len(items)])

\* xs[:n]
Take(xs, n) == SubSeq(xs, 1, Min(n, Len(xs)))

\* [item.word for item in items]
WordsOf(items) == [k \in DOMAIN items |-> items[k].word]

\* the loop of find_jaccard_candidates over vocabulary.items()
RECURSIVE JaccardCandidates(_, _, _)
JaccardCandidates(word, vocab, keys) ==
    IF keys = <<>> THEN <<>>
    ELSE LET vocab_word == Head(keys)
             df         == vocab.map[vocab_word]
             similarity == jaccard_similarity(combined_ngrams(word),
                                              combined_ngrams(vocab_word))
             qualifies  == /\ df >= min_df
                           /\ similarity[1] * min_similarity_den
                                >= min_similarity_num * similarity[2]
         IN  (IF qualifies
              THEN <<[word |-> vocab_word, key |-> <<-similarity[1], similarity[2], -df>>]>>
              ELSE <<>>)
             \o JaccardCandidates(word, vocab, Tail(keys))

\* find_jaccard_candidates without candidates.sort
find_jaccard_candidates_unsorted(word, vocab) ==
    WordsOf(Take(JaccardCandidates(word, vocab, vocab.keys), jaccard_top_n))

find_jaccard_candidates(word, vocab) ==
    WordsOf(Take(SortByKey(JaccardCandidates(word, vocab, vocab.keys)), jaccard_top_n))

\* the comprehension of find_edit_distance_candidates of
\* ngram_jaccard_correction.py: no document-frequency test, sorted by distance
RECURSIVE EditCandidatesNgram(_, _, _)
EditCandidatesNgram(word, vocab, keys) ==
    IF keys = <<>> THEN <<>>
    ELSE LET vocab_word == Head(keys)
             distance   == Levenshtein_distance(word, vocab_word)
         IN  (IF distance <= max_distance
              THEN <<[word |-> vocab_word, key |-> <<distance, 1, 0>>]>> ELSE <<>>)
             \o EditCandidatesNgram(word, vocab, Tail(keys))

find_edit_distance_candidates_ngram(word, vocab) ==
    WordsOf(Take(SortByKey(EditCandidatesNgram(word, vocab, vocab.keys)), edit_top_n))

\* the comprehension of find_edit_distance_candidates of
\* spelling_correction_edit.py: df >= min_df, sorted by (distance, -df)
RECURSIVE EditCandidatesEdit(_, _, _)
EditCandidatesEdit(word, vocab, keys) ==
    IF keys = <<>> THEN <<>>
    ELSE LET vocab_word == Head(keys)
             df         == vocab.map[vocab_word]
             distance   == Levenshtein_distance(word, vocab_word)
         IN  (IF distance <= max_distance /\ df >= min_df
              THEN <<[word |-> vocab_word, key |-> <<distance, 1, -df>>]>> ELSE <<>>)
             \o EditCandidatesEdit(word, vocab, Tail(keys))

find_edit_distance_candidates_edit(word, vocab) ==
    WordsOf(Take(SortByKey(EditCandidatesEdit(word, vocab, vocab.keys)), edit_top_n))

\* get_best_candidates without its two fallbacks
get_best_candidates_jaccard_only(word, vocab) == find_jaccard_candidates(word, vocab)

get_best_candidates(word, vocab) ==
    LET jaccard == find_jaccard_candidates(word, vocab)
        edit    == find_edit_distance_candidates_ngram(word, vocab)
    IN  IF jaccard # <<>> THEN jaccard
        ELSE IF edit # <<>> THEN edit
        ELSE <<word>>

\* list(itertools.product(*lists)): the last list varies fastest
RECURSIVE Product(_)
Product(lists) ==
    IF lists = <<>> THEN << <<>> >>
    ELSE LET rest  == Product(Tail(lists))
             first == Head(lists)
             n     == Len(rest)
         IN  [k \in 1 .. Len(first) * n |->
                 <<first[((k - 1) \div n) + 1]>> \o rest[((k - 1) % n) + 1]]

\* generate_alternative_queries of ngram_jaccard_correction.py.  A query and
\* an alternative are the lists of their words: the candidates are vocabulary
\* terms or query words, which hold no white space, so " ".join followed by
\* split() gives the same list back
generate_alternative_queries_ngram(q, vocab) ==
    Take(Product([k \in DOMAIN q |-> get_best_candidates(q[k], vocab)]), max_alternatives)

\* candidates if candidates else [word] of generate_alternative_queries of
\* spelling_correction_edit.py
corrected_term(word, vocab) ==
    LET candidates == find_edit_distance_candidates_edit(word, vocab)
    IN  IF candidates # <<>> THEN candidates ELSE <<word>>

\* generate_alternative_queries of spelling_correction_edit.py
generate_alternative_queries_edit(q, vocab) ==
    Product([k \in DOMAIN q |-> corrected_term(q[k], vocab)])

-----------------------------------------------------------------------------
(* Retrieval of an alternative query and the ranking of the alternatives. *)

\* the loop of retrieve_documents_for_query of ngram_jaccard_correction.py.
\* result is the set object stored in the index under terms[0], and
\* "result &= post" updates that object in place; the posting of a later
\* occurrence of terms[0] is the same, already updated, object
RECURSIVE IntersectInPlace(_, _, _, _)
IntersectInPlace(index, terms, k, result) ==
    IF k > Len(terms) THEN result
    ELSE LET post    == IF terms[k] = terms[1] THEN result ELSE index[terms[k]]
             updated == result \cap post
         IN  IF updated = {} THEN updated
             ELSE IntersectInPlace(index, terms, k + 1, updated)

\* retrieve_documents_for_query of ngram_jaccard_correction.py: the returned
\* set and the index as the call leaves it
retrieve_documents_for_query_ngram(terms, index) ==
    LET postings == [k \in DOMAIN terms |-> Get(index, terms[k])]
    IN  IF postings = <<>> \/ \E k \in DOMAIN postings : postings[k] = {}
        THEN [result |-> {}, index |-> index]
        ELSE LET result == IntersectInPlace(index, terms, 2, index[terms[1]])
             IN  [result |-> result,
                  index  |-> [index EXCEPT ![terms[1]] = result]]

\* the loop of retrieve_documents_for_query of spelling_correction_edit.py:
\* result = result.intersection(post) makes a new set each time
RECURSIVE IntersectCopy(_, _, _)
IntersectCopy(postings, k, result) ==
    IF k > Len(postings) THEN result
    ELSE LET updated == result \cap postings[k]
         IN  IF updated = {} THEN updated
             ELSE IntersectCopy(postings, k + 1, updated)

retrieve_documents_for_query_edit(terms, index) ==
    LET postings == [k \in DOMAIN terms |-> Get(index, terms[k])]
    IN  IF postings = <<>> THEN [result |-> {}, index |-> index]
        ELSE [result |-> IntersectCopy(postings, 2, postings[1]), index |-> index]

\* the loop of process_queries over the alternatives of one query: the
\* (alternative, doc_count) pairs with doc_count > 0, and the index after it
RECURSIVE RetrieveAllNgram(_, _, _)
RetrieveAllNgram(alternatives, index, found) ==
    IF alternatives = <<>> THEN [found |-> found, index |-> index]
    ELSE LET r         == retrieve_documents_for_query_ngram(Head(alternatives), index)
             doc_count == Cardinality(r.result)
         IN  RetrieveAllNgram(Tail(alternatives), r.index,
                 IF doc_count > 0
                 THEN Append(found, [alt |-> Head(alternatives), doc_count |-> doc_count,
                                     key |-> <<-doc_count, 1, 0>>])
                 ELSE found)

\* the loop of process_edit_distance_corrections over the alternatives
RECURSIVE RetrieveAllEdit(_, _, _)
RetrieveAllEdit(alternatives, index, found) ==
    IF alternatives = <<>> THEN [found |-> found, index |-> index]
    ELSE LET r         == retrieve_documents_for_query_edit(Head(alternatives), index)
             doc_count == Cardinality(r.result)
         IN  RetrieveAllEdit(Tail(alternatives), r.index,
                 Append(found, [alt |-> Head(alternatives), doc_count |-> doc_count,
                                key |-> <<-doc_count, 1, 0>>]))

\* sorted(results[query], key=lambda x: -x[1])[:3], as (alternative, count) pairs
Ranked(found) ==
    LET top == Take(SortByKey(found), kept_alternatives)
    IN  [k \in DOMAIN top |-> [alt |-> top[k].alt, doc_count |-> top[k].doc_count]]

\* one iteration of the loop of process_queries: results[query] and the index
process_query_ngram(q, vocab, index) ==
    LET r == RetrieveAllNgram(generate_alternative_queries_ngram(q, vocab), index, <<>>)
    IN  [ranked |-> Ranked(r.found), index |-> r.index]

\* one iteration of the loop of process_edit_distance_corrections
process_query_edit(q, vocab, index) ==
    LET r == RetrieveAllEdit(generate_alternative_queries_edit(q, vocab), index, <<>>)
    IN  [ranked |-> Ranked(r.found), index |-> r.index]

-----------------------------------------------------------------------------
(* The collections and phrases the phrase engines are run on. *)

\* the words generated documents and phrases of the phrase engines are
\* written with
PhraseWords == {"real", "madrid"}

\* the most documents of a generated collection of the phrase engines
MaxPhraseDocs == 2

\* the most words of such a document
MaxPhraseTextLen == 3

\* the most words of a generated phrase
MaxPhraseLen == 3

\* two documents with a one-letter word, which the positional builder drops
\* and the biword builder keeps
OneLetterCollection ==
    << <<"madrid", "real", "madrid", "x", "real">>,
       <<"madrid", "real", "madrid", "x", "real">> >>

PhraseCollections ==
    SeqsUpTo(SeqsUpTo(PhraseWords, MaxPhraseTextLen), MaxPhraseDocs)
        \cup {ExampleCollection, OneLetterCollection}

Phrases ==
    SeqsUpTo(PhraseWords, MaxPhraseLen)
        \cup { <<"Madrid", "wins">>, <<"real", "madrid", "wins">>,
               <<"transfer", "news", "today">> }

\* the lists variables of a run that intersects no lists
ListsIdle ==
    /\ list1 = <<>>
    /\ list2 = <<>>
    /\ result_linear = <<>>
    /\ result_galloping = <<>>
    /\ mismatch = FALSE
    /\ measured = {}

\* the Boolean variables of a run that loads no term index
BooleanIdle ==
    /\ inverted_index = EmptyDict
    /\ all_docs = {}
    /\ query = <<>>
    /\ query_ast = NoAst
    /\ outcome = NoOutcome

\* the phrase variables of a run that resolves no phrase
PhraseIdle ==
    /\ crawled_pages = <<>>
    /\ positional_index = EmptyDict
    /\ biword_index = EmptyDict
    /\ the_phrase = <<>>
    /\ asked = {}
    /\ positional_result = {}
    /\ biword_result = {}

\* the last operation of a session in which no query has been run
NoOp == [op |-> "none", input |-> <<>>, output |-> {}]

\* the correction variables of a run that corrects no query
CorrectionIdle ==
    /\ engine = "none"
    /\ vocabulary = EmptyOrdered
    /\ loaded_index = EmptyDict
    /\ results = EmptyDict
    /\ last_op = NoOp

\* an index file on disk: whether it exists, and its lines, each the list of
\* the fields line.strip().split() finds in it
FileOf(lines) == [exists |-> TRUE, lines |-> lines]

\* the index file of a run that has written none
NoFile == [exists |-> FALSE, lines |-> <<>>]

\* the build variables of a run that builds no index and starts no program
BuildIdle ==
    /\ builder = "none"
    /\ failing = {}
    /\ completion_order = <<>>
    /\ merged = 0
    /\ built_index = EmptyDict
    /\ doc_id_map = EmptyDict
    /\ build_status = "none"
    /\ index_file = NoFile
    /\ startup = "none"

InitLists ==
    /\ list1 \in AscLists
    /\ list2 \in AscLists
    /\ result_linear = <<>>
    /\ result_galloping = <<>>
    /\ mismatch = FALSE
    /\ measured = {}
    /\ BooleanIdle
    /\ PhraseIdle
    /\ CorrectionIdle
    /\ BuildIdle

\* a call of intersect_linear on the pair
CallIntersectLinear ==
    /\ "linear" \notin measured
    /\ result_linear' = intersect_linear(list1, list2)
    /\ measured' = measured \cup {"linear"}
    /\ UNCHANGED <<list1, list2, result_galloping, mismatch>>
    /\ UNCHANGED <<vars_boolean, vars_phrase, vars_correction, vars_build>>

\* a call of intersect_galloping on the pair
CallIntersectGalloping ==
    /\ "galloping" \notin measured
    /\ result_galloping' = intersect_galloping(list1, list2)
    /\ measured' = measured \cup {"galloping"}
    /\ UNCHANGED <<list1, list2, result_linear, mismatch>>
    /\ UNCHANGED <<vars_boolean, vars_phrase, vars_correction, vars_build>>

\* one iteration of the loop of measure_intersection_algorithms: both
\* intersections of the pair, then the comparison that prints "Mismatch"
MeasurePair ==
    /\ measured = {}
    /\ result_linear' = intersect_linear(list1, list2)
    /\ result_galloping' = intersect_galloping(list1, list2)
    /\ mismatch' = (SortedList(intersect_linear(list1, list2))
                      # SortedList(intersect_galloping(list1, list2)))
    /\ measured' = {"linear", "galloping", "verified"}
    /\ UNCHANGED <<list1, list2>>
    /\ UNCHANGED <<vars_boolean, vars_phrase, vars_correction, vars_build>>

NextLists ==
    \/ CallIntersectLinear
    \/ CallIntersectGalloping
    \/ MeasurePair

SpecLists == InitLists /\ [][NextLists]_vars

\* main of boolean.py up to the query loop: the index is loaded, the
\* universal set is built from it
InitBoolean ==
    /\ \E collection \in Collections :
          inverted_index = build_inverted_index(collection)
    /\ all_docs = build_all_docs(inverted_index)
    /\ query = <<>>
    /\ query_ast = NoAst
    /\ outcome = NoOutcome
    /\ ListsIdle
    /\ PhraseIdle
    /\ CorrectionIdle
    /\ BuildIdle

\* process_boolean_query on a well-formed query; each behaviour is the
\* processing of one query of the loop of main
WellFormedQuery ==
    /\ outcome = NoOutcome
    /\ \E a \in Trees :
          /\ query' = QueryOfTree(a)
          /\ query_ast' = a
          /\ outcome' = process_boolean_query(QueryOfTree(a), inverted_index, all_docs)
    /\ UNCHANGED <<inverted_index, all_docs>>
    /\ UNCHANGED <<vars_lists, vars_phrase, vars_correction, vars_build>>

\* process_boolean_query on an arbitrary sequence of lexemes
ArbitraryQuery ==
    /\ outcome = NoOutcome
    /\ \E q \in RawQueries :
          /\ query' = q
          /\ query_ast' = NoAst
          /\ outcome' = process_boolean_query(q, inverted_index, all_docs)
    /\ UNCHANGED <<inverted_index, all_docs>>
    /\ UNCHANGED <<vars_lists, vars_phrase, vars_correction, vars_build>>

NextBoolean ==
    \/ WellFormedQuery
    \/ ArbitraryQuery

SpecBoolean == InitBoolean /\ [][NextBoolean]_vars

\* main of phrase_query.py and of positional_phrase_query.py up to the
\* queries: each loads the file its builder saved for the collection
InitPhrase ==
    /\ crawled_pages \in PhraseCollections
    /\ positional_index =
          load_positional_index(save_positional_index(build_positional_index(crawled_pages)))
    /\ biword_index = load_biword_index(save_biword_index(build_biword_index(crawled_pages)))
    /\ the_phrase = <<>>
    /\ asked = {}
    /\ positional_result = {}
    /\ biword_result = {}
    /\ ListsIdle
    /\ BooleanIdle
    /\ CorrectionIdle
    /\ BuildIdle

\* phrase_query of positional_phrase_query.py on a phrase of the query list
PositionalPhraseQuery ==
    /\ asked = {}
    /\ \E ph \in Phrases :
          /\ the_phrase' = ph
          /\ positional_result' = phrase_query(ph, positional_index)
    /\ asked' = asked \cup {"positional"}
    /\ UNCHANGED <<crawled_pages, positional_index, biword_index, biword_result>>
    /\ UNCHANGED <<vars_lists, vars_boolean, vars_correction, vars_build>>

\* retrieve_documents of phrase_query.py on the same phrase: the two programs
\* are run on one query list, and neither reads what the other has computed
BiwordPhraseQuery ==
    /\ asked = {"positional"}
    /\ biword_result' = retrieve_documents(the_phrase, biword_index)
    /\ asked' = asked \cup {"biword"}
    /\ UNCHANGED the_phrase
    /\ UNCHANGED <<crawled_pages, positional_index, biword_index, positional_result>>
    /\ UNCHANGED <<vars_lists, vars_boolean, vars_correction, vars_build>>

NextPhrase ==
    \/ PositionalPhraseQuery
    \/ BiwordPhraseQuery

SpecPhrase == InitPhrase /\ [][NextPhrase]_vars

-----------------------------------------------------------------------------
(* The correction engines: the query loop of process_queries and of        *)
(* process_edit_distance_corrections over a loaded vocabulary and index.   *)

\* the largest document id of the collections the correction engines run on
MaxCorrectionDoc == 20

CorrectionTerms == <<"madrid", "read", "real">>

\* runs of document ids whose length is just below or at min_df, or empty
Spans ==
    { span \in { lo .. lo + size - 1 : lo \in 0 .. MaxCorrectionDoc,
                                       size \in {min_df - 1, min_df} } :
        span \subseteq 0 .. MaxCorrectionDoc }
        \cup { {} }

\* the collection in which term t occurs in the documents of spans[t]
CollectionOfSpans(spans) ==
    [d \in 1 .. MaxCorrectionDoc + 1 |->
        SelectSeq(CorrectionTerms, LAMBDA t : (d - 1) \in spans[t])]

CorrectionCollections ==
    { CollectionOfSpans(spans) : spans \in [Range(CorrectionTerms) -> Spans] }

\* the queries of the query list: misspelt, correct and unknown words
CorrectionQueries ==
    { <<"mdrid", "real">>, <<"real", "mdrid">>, <<"relal", "x">>,
      <<"relal", "mdrid">>, <<>> }

\* main of a correction engine up to the query loop: vocabulary and index
\* are loaded from the file inverted_index.py saved for the collection
InitCorrection ==
    /\ crawled_pages \in CorrectionCollections
    /\ engine \in {"ngram", "edit"}
    /\ LET lines == save_inverted_index(build_inverted_index(crawled_pages))
       IN  /\ vocabulary = load_vocabulary_with_frequency(lines)
           /\ inverted_index = load_inverted_index_correction(lines)
           /\ loaded_index = load_inverted_index_correction(lines)
    /\ results = EmptyDict
    /\ last_op = NoOp
    /\ all_docs = {}
    /\ query = <<>>
    /\ query_ast = NoAst
    /\ outcome = NoOutcome
    /\ positional_index = EmptyDict
    /\ biword_index = EmptyDict
    /\ the_phrase = <<>>
    /\ asked = {}
    /\ positional_result = {}
    /\ biword_result = {}
    /\ ListsIdle
    /\ BuildIdle

\* results[query] = value
SetResult(q, ranked) ==
    [k \in DOMAIN results \cup {q} |-> IF k = q THEN ranked ELSE results[k]]

\* one iteration of the loop of process_queries of
\* ngram_jaccard_correction.py, on a query not processed before
NgramProcessQuery ==
    /\ engine = "ngram"
    /\ \E q \in CorrectionQueries \ DOMAIN results :
          LET r == process_query_ngram(q, vocabulary, inverted_index)
          IN  /\ results' = SetResult(q, r.ranked)
              /\ inverted_index' = r.index
    /\ UNCHANGED <<engine, vocabulary, loaded_index, last_op>>
    /\ UNCHANGED <<all_docs, query, query_ast, outcome>>
    /\ UNCHANGED <<vars_lists, vars_phrase, vars_build>>

\* one iteration of the loop of process_edit_distance_corrections
EditProcessQuery ==
    /\ engine = "edit"
    /\ \E q \in CorrectionQueries \ DOMAIN results :
          LET r == process_query_edit(q, vocabulary, inverted_index)
          IN  /\ results' = SetResult(q, r.ranked)
              /\ inverted_index' = r.index
    /\ UNCHANGED <<engine, vocabulary, loaded_index, last_op>>
    /\ UNCHANGED <<all_docs, query, query_ast, outcome>>
    /\ UNCHANGED <<vars_lists, vars_phrase, vars_build>>

NextCorrection ==
    \/ NgramProcessQuery
    \/ EditProcessQuery

SpecCorrection == InitCorrection /\ [][NextCorrection]_vars

-----------------------------------------------------------------------------
(* A session: the indexes of one collection are loaded once and the query  *)
(* engines are then called on them, in any order and any number of times.  *)

\* the texts of the documents of a session
SessionTexts ==
    { <<"real", "madrid">>, <<"madrid", "news">>, <<"real", "news", "real">> }

\* the largest number of documents of a session's collection
MaxSessionDocs == 2

SessionCollections == SeqsUpTo(SessionTexts, MaxSessionDocs) \cup {ExampleCollection}

\* the query list of main of boolean.py, over the terms of the session
SessionBooleanQueries ==
    { <<"real", "AND", "madrid">>,
      <<"real", "OR", "news">>,
      <<"real", "AND", "NOT", "news">>,
      <<"(", "news", "AND", "real", ")", "OR", "madrid">>,
      <<"madrid", "OR", "(", "real", "AND", "NOT", "news", ")">> }

SessionPhrases ==
    { <<"real", "madrid">>, <<"madrid", "news">>, <<"real", "madrid", "wins">> }

SessionTerms == {"real", "madrid", "news"}

\* the largest number of terms of an alternative query of a session
MaxAlternativeLen == 2

SessionAlternatives == SeqsUpTo(SessionTerms, MaxAlternativeLen)

Init ==
    /\ crawled_pages \in SessionCollections
    /\ LET lines == save_inverted_index(build_inverted_index(crawled_pages))
       IN  /\ vocabulary = load_vocabulary_with_frequency(lines)
           /\ inverted_index = load_inverted_index_correction(lines)
           /\ loaded_index = load_inverted_index_correction(lines)
           /\ all_docs = build_all_docs(load_inverted_index_correction(lines))
    /\ positional_index =
          load_positional_index(save_positional_index(build_positional_index(crawled_pages)))
    /\ biword_index = load_biword_index(save_biword_index(build_biword_index(crawled_pages)))
    /\ engine = "session"
    /\ results = EmptyDict
    /\ last_op = NoOp
    /\ query = <<>>
    /\ query_ast = NoAst
    /\ outcome = NoOutcome
    /\ the_phrase = <<>>
    /\ asked = {}
    /\ positional_result = {}
    /\ biword_result = {}
    /\ ListsIdle
    /\ BuildIdle

\* what a session action leaves alone besides the indexes
SessionFrame ==
    /\ UNCHANGED <<engine, vocabulary, loaded_index, results>>
    /\ UNCHANGED <<all_docs, query, query_ast, outcome>>
    /\ UNCHANGED <<crawled_pages, the_phrase, asked, positional_result, biword_result>>
    /\ UNCHANGED <<vars_lists, vars_build>>

\* process_boolean_query on the term index
SessionBooleanQuery ==
    /\ \E q \in SessionBooleanQueries :
          last_op' = [op |-> "boolean", input |-> q,
                      output |-> process_boolean_query(q, inverted_index, all_docs).result]
    /\ UNCHANGED <<inverted_index, positional_index, biword_index>>
    /\ SessionFrame

\* phrase_query of positional_phrase_query.py on the positional index
SessionPositionalQuery ==
    /\ \E ph \in SessionPhrases :
          last_op' = [op |-> "positional", input |-> ph,
                      output |-> phrase_query(ph, positional_index)]
    /\ UNCHANGED <<inverted_index, positional_index, biword_index>>
    /\ SessionFrame

\* retrieve_documents of phrase_query.py on the biword index
SessionBiwordQuery ==
    /\ \E ph \in SessionPhrases :
          last_op' = [op |-> "biword", input |-> ph,
                      output |-> retrieve_documents(ph, biword_index)]
    /\ UNCHANGED <<inverted_index, positional_index, biword_index>>
    /\ SessionFrame

\* retrieve_documents_for_query of ngram_jaccard_correction.py on the term
\* index: the index is what the call leaves behind
SessionNgramRetrieval ==
    /\ \E alt \in SessionAlternatives :
          LET r == retrieve_documents_for_query_ngram(alt, inverted_index)
          IN  /\ last_op' = [op |-> "ngram", input |-> alt, output |-> r.result]
              /\ inverted_index' = r.index
    /\ UNCHANGED <<positional_index, biword_index>>
    /\ SessionFrame

\* retrieve_documents_for_query of spelling_correction_edit.py on the term
\* index
SessionEditRetrieval ==
    /\ \E alt \in SessionAlternatives :
          LET r == retrieve_documents_for_query_edit(alt, inverted_index)
          IN  /\ last_op' = [op |-> "edit", input |-> alt, output |-> r.result]
              /\ inverted_index' = r.index
    /\ UNCHANGED <<positional_index, biword_index>>
    /\ SessionFrame

Next ==
    \/ SessionBooleanQuery
    \/ SessionPositionalQuery
    \/ SessionBiwordQuery
    \/ SessionNgramRetrieval
    \/ SessionEditRetrieval

Spec == Init /\ [][Next]_vars

-----------------------------------------------------------------------------
(* An index build: main of inverted_index.py, biword_index.py or           *)
(* positional_index.py builds the index of the crawled documents and saves *)
(* it, and the query program of the index loads the saved file.            *)

\* doc_id.isdigit() for a piece of a posting list
IsDigits(cs) ==
    /\ cs # <<>>
    /\ \A k \in DOMAIN cs : \E d \in 0 .. 9 : cs[k] = Digit(d)

\* the posting list taken as one doc_id, without posting_str.split(',')
DigitPostingsUnsplit(cs) == IF IsDigits(cs) THEN {IntOfStr(cs)} ELSE {}

\* set(int(doc_id) for doc_id in doc_ids if doc_id.isdigit())
DigitPostings(cs) ==
    LET doc_ids == SplitComma(cs)
    IN  { IntOfStr(doc_ids[k]) : k \in { j \in DOMAIN doc_ids : IsDigits(doc_ids[j]) } }

\* the loop of load_inverted_index of boolean.py over the lines of the file:
\* a line of fewer than three fields is passed over
RECURSIVE LoadTermLines(_, _)
LoadTermLines(lines, index) ==
    IF lines = <<>> THEN index
    ELSE LET parts == Head(lines)
         IN  IF Len(parts) < 3 THEN LoadTermLines(Tail(lines), index)
             ELSE LoadTermLines(Tail(lines),
                      [t \in DOMAIN index \cup {parts[1]} |->
                          IF t = parts[1] THEN DigitPostings(parts[3]) ELSE index[t]])

load_inverted_index(lines) == LoadTermLines(lines, EmptyDict)

\* the texts of the crawled documents of a build
BuildTexts ==
    { <<"real", "madrid">>, <<"madrid", "x", "real">>,
      <<"Madrid", "wins", "the", "real", "madrid">> }

\* the largest number of crawled documents of a build
MaxBuildDocs == 3

BuildCollections == SeqsUpTo(BuildTexts, MaxBuildDocs)

\* the doc_ids enumerate(doc_files) gives the crawled documents
BuildIds == 0 .. Len(crawled_pages) - 1

\* a doc_id counted up as the tasks complete: the place of task k in the order
\* of completion
WorkerDocIdAtCompletion(order, k) == (CHOOSE i \in DOMAIN order : order[i] = k) - 1

\* the doc_id a worker task returns for the document submitted as number k:
\* the doc_id it was submitted with, whatever the order of completion
WorkerDocId(order, k) == k

\* doc_id_map[doc_id] = filename, the file being that of position k + 1 of doc_files
MapDocId(map, doc_id, k) ==
    [d \in DOMAIN map \cup {doc_id} |-> IF d = doc_id THEN k + 1 ELSE map[d]]

\* the stage of a build that has handled n documents
StageAfter(n) == IF n >= Len(crawled_pages) THEN "built" ELSE "building"

InitBuild ==
    /\ builder \in {"term", "biword", "positional"}
    /\ crawled_pages \in BuildCollections
    /\ failing \in { f \in SUBSET BuildIds : Cardinality(f) <= 1 }
    /\ completion_order = <<>>
    /\ merged = 0
    /\ built_index = EmptyDict
    /\ doc_id_map = EmptyDict
    /\ build_status = StageAfter(0)
    /\ index_file = NoFile
    /\ startup = "none"
    /\ positional_index = EmptyDict
    /\ biword_index = EmptyDict
    /\ the_phrase = <<>>
    /\ asked = {}
    /\ positional_result = {}
    /\ biword_result = {}
    /\ ListsIdle
    /\ BooleanIdle
    /\ CorrectionIdle

\* what a build step leaves alone
BuildFrame ==
    /\ UNCHANGED <<builder, failing, crawled_pages, startup>>
    /\ UNCHANGED <<the_phrase, asked, positional_result, biword_result>>
    /\ UNCHANGED <<all_docs, query, query_ast, outcome>>
    /\ UNCHANGED <<vars_lists, vars_correction>>

\* a worker task that adds its result to the shared index and document-ID
\* map itself, from its own thread, when it finishes
WorkerWritesShared ==
    /\ builder \in {"biword", "positional"}
    /\ build_status = "building"
    /\ \E k \in BuildIds \ Range(completion_order) :
          /\ completion_order' = Append(completion_order, k)
          /\ built_index' =
                IF builder = "biword"
                THEN MergeBiwords(built_index, k,
                                  process_document_biword(crawled_pages[k + 1]))
                ELSE MergePositions(built_index, k,
                                    process_document_positional(crawled_pages[k + 1]))
          /\ doc_id_map' = MapDocId(doc_id_map, k, k)
    /\ UNCHANGED <<merged, build_status, index_file>>
    /\ UNCHANGED <<inverted_index, positional_index, biword_index>>
    /\ BuildFrame

\* a worker task of the ThreadPoolExecutor of build_biword_index or
\* build_positional_index finishes process_document, with its result or with
\* the exception of a document that cannot be read
WorkerCompletes ==
    /\ builder \in {"biword", "positional"}
    /\ build_status = "building"
    /\ \E k \in BuildIds \ Range(completion_order) :
          completion_order' = Append(completion_order, k)
    /\ UNCHANGED <<merged, built_index, doc_id_map, build_status, index_file>>
    /\ UNCHANGED <<inverted_index, positional_index, biword_index>>
    /\ BuildFrame

\* one iteration of "for future in futures": the futures are taken in the
\* order of submission, future.result() waits for the task and raises its
\* exception, and the result is merged under the doc_id the task returns
MergeFuture ==
    /\ builder \in {"biword", "positional"}
    /\ build_status = "building"
    /\ merged \in Range(completion_order)
    /\ IF merged \in failing
       THEN /\ build_status' = "raised"
            /\ UNCHANGED <<merged, built_index, doc_id_map>>
       ELSE LET doc_id == WorkerDocId(completion_order, merged)
                text   == crawled_pages[merged + 1]
            IN  /\ built_index' =
                      IF builder = "biword"
                      THEN MergeBiwords(built_index, doc_id, process_document_biword(text))
                      ELSE MergePositions(built_index, doc_id,
                                          process_document_positional(text))
                /\ doc_id_map' = MapDocId(doc_id_map, doc_id, merged)
                /\ merged' = merged + 1
                /\ build_status' = StageAfter(merged + 1)
    /\ UNCHANGED <<completion_order, index_file>>
    /\ UNCHANGED <<inverted_index, positional_index, biword_index>>
    /\ BuildFrame

\* one iteration of the loop of build_inverted_index over doc_files: open()
\* and read() raise for a document that cannot be read
IndexNextDocument ==
    /\ builder = "term"
    /\ build_status = "building"
    /\ IF merged \in failing
       THEN /\ build_status' = "raised"
            /\ UNCHANGED <<merged, built_index, doc_id_map>>
       ELSE /\ built_index' = IndexDocument(built_index, merged, crawled_pages[merged + 1])
            /\ doc_id_map' = MapDocId(doc_id_map, merged, merged)
            /\ merged' = merged + 1
            /\ build_status' = StageAfter(merged + 1)
    /\ UNCHANGED <<completion_order, index_file>>
    /\ UNCHANGED <<inverted_index, positional_index, biword_index>>
    /\ BuildFrame

\* main of the builder after the build: the index is written to its file
SaveIndex ==
    /\ build_status = "built"
    /\ index_file' = FileOf(CASE builder = "term"       -> save_inverted_index(built_index)
                              [] builder = "biword"     -> save_biword_index(built_index)
                              [] builder = "positional" -> save_positional_index(built_index))
    /\ build_status' = "saved"
    /\ UNCHANGED <<completion_order, merged, built_index, doc_id_map>>
    /\ UNCHANGED <<inverted_index, positional_index, biword_index>>
    /\ BuildFrame

\* the query program of the index loads the saved file: load_inverted_index
\* of boolean.py, load_biword_index or load_positional_index
LoadIndex ==
    /\ build_status = "saved"
    /\ inverted_index' = IF builder = "term"
                         THEN load_inverted_index(index_file.lines) ELSE inverted_index
    /\ biword_index' = IF builder = "biword"
                       THEN load_biword_index(index_file.lines) ELSE biword_index
    /\ positional_index' = IF builder = "positional"
                           THEN load_positional_index(index_file.lines) ELSE positional_index
    /\ build_status' = "loaded"
    /\ UNCHANGED <<completion_order, merged, built_index, doc_id_map, index_file>>
    /\ BuildFrame

NextBuild ==
    \/ WorkerCompletes
    \/ MergeFuture
    \/ IndexNextDocument
    \/ SaveIndex
    \/ LoadIndex

SpecBuild == InitBuild /\ [][NextBuild]_vars

-----------------------------------------------------------------------------
(* The start of a query program: main loads the index file it needs, which *)
(* may be missing or hold a malformed line, and then evaluates its queries. *)

\* the programs and the index file each of them loads
Programs == {"boolean", "biword", "positional", "ngram", "edit"}

FileKind(program) ==
    CASE program = "biword"     -> "biword"
      [] program = "positional" -> "positional"
      [] OTHER                  -> "term"

\* the lines a builder writes for the crawled documents
SavedLines(kind) ==
    CASE kind = "term"       -> save_inverted_index(build_inverted_index(crawled_pages))
      [] kind = "biword"     -> save_biword_index(build_biword_index(crawled_pages))
      [] kind = "positional" -> save_positional_index(build_positional_index(crawled_pages))

\* malformed lines: a blank line, a line of a term alone, a line without its
\* posting list
MalformedLines == { <<>>, <<"real">>, <<"real", <<"2">>>> }

\* the lines with one more line put after the first k of them
InsertAt(lines, k, line) ==
    SubSeq(lines, 1, k) \o <<line>> \o SubSeq(lines, k + 1, Len(lines))

\* the index files a program may find: none, the saved one, or the saved one
\* with a malformed line somewhere in it
FilesOf(kind) ==
    {NoFile} \cup {FileOf(SavedLines(kind))}
        \cup { FileOf(InsertAt(SavedLines(kind), k, line)) :
                 k \in 0 .. Len(SavedLines(kind)), line \in MalformedLines }

\* line.strip().split() followed by parts[0], parts[1]: IndexError for a line
\* of fewer than two fields
VocabularyLoaderRaises(lines) == \E k \in DOMAIN lines : Len(lines[k]) < 2

\* parts[0] of load_inverted_index of the correction engines: IndexError for
\* a blank line
IndexLoaderRaises(lines) == \E k \in DOMAIN lines : Len(lines[k]) < 1

\* term, *postings = line.strip().split() and
\* doc_id, positions = posting.split(':'): ValueError for a blank line and
\* for a posting that has not exactly one colon
PositionalLoaderRaises(lines) ==
    \E k \in DOMAIN lines :
        \/ Len(lines[k]) < 1
        \/ \E j \in 2 .. Len(lines[k]) :
              Cardinality({ i \in DOMAIN lines[k][j] : lines[k][j][i] = ":" }) # 1

\* "if not biword_index: return" of main, without the test
SessionNeverStops(index) == FALSE

\* "if not biword_index: return" of main of the phrase engines
SessionStops(index) == index = EmptyDict

InitStartup ==
    /\ engine \in Programs
    /\ crawled_pages \in BuildCollections
    /\ index_file \in FilesOf(FileKind(engine))
    /\ startup = "starting"
    /\ inverted_index = EmptyDict
    /\ all_docs = {}
    /\ query = <<>>
    /\ query_ast = NoAst
    /\ outcome = NoOutcome
    /\ positional_index = EmptyDict
    /\ biword_index = EmptyDict
    /\ the_phrase = <<>>
    /\ asked = {}
    /\ positional_result = {}
    /\ biword_result = {}
    /\ vocabulary = EmptyOrdered
    /\ loaded_index = EmptyDict
    /\ results = EmptyDict
    /\ last_op = NoOp
    /\ builder = "none"
    /\ failing = {}
    /\ completion_order = <<>>
    /\ merged = 0
    /\ built_index = EmptyDict
    /\ doc_id_map = EmptyDict
    /\ build_status = "none"
    /\ ListsIdle

\* what a step of a starting program leaves alone
StartupFrame ==
    /\ UNCHANGED <<engine, crawled_pages, index_file, loaded_index, results>>
    /\ UNCHANGED <<query, query_ast, the_phrase, asked, positional_result, biword_result>>
    /\ UNCHANGED <<builder, failing, completion_order, merged, built_index, doc_id_map,
                   build_status>>
    /\ UNCHANGED vars_lists

\* main of boolean.py up to the query loop: open() raises for a missing file
StartBoolean ==
    /\ engine = "boolean"
    /\ startup = "starting"
    /\ IF ~index_file.exists
       THEN /\ startup' = "raised"
            /\ UNCHANGED <<inverted_index, all_docs>>
       ELSE /\ inverted_index' = load_inverted_index(index_file.lines)
            /\ all_docs' = build_all_docs(load_inverted_index(index_file.lines))
            /\ startup' = "ready"
    /\ UNCHANGED <<positional_index, biword_index, vocabulary, outcome, last_op>>
    /\ StartupFrame

\* main of phrase_query.py up to the queries: for a missing file the loader
\* prints an error and returns an empty index, and main returns on an empty
\* index
StartBiword ==
    /\ engine = "biword"
    /\ startup = "starting"
    /\ LET index == IF index_file.exists THEN load_biword_index(index_file.lines)
                    ELSE EmptyDict
       IN  /\ biword_index' = index
           /\ startup' = IF SessionStops(index) THEN "stopped" ELSE "ready"
    /\ UNCHANGED <<inverted_index, all_docs, positional_index, vocabulary, outcome, last_op>>
    /\ StartupFrame

\* main of positional_phrase_query.py up to the queries
StartPositional ==
    /\ engine = "positional"
    /\ startup = "starting"
    /\ IF index_file.exists /\ PositionalLoaderRaises(index_file.lines)
       THEN /\ startup' = "raised"
            /\ UNCHANGED positional_index
       ELSE LET index == IF index_file.exists THEN load_positional_index(index_file.lines)
                         ELSE EmptyDict
            IN  /\ positional_index' = index
                /\ startup' = IF SessionStops(index) THEN "stopped" ELSE "ready"
    /\ UNCHANGED <<inverted_index, all_docs, biword_index, vocabulary, outcome, last_op>>
    /\ StartupFrame

\* main of a correction engine up to the query loop: the vocabulary, then the
\* index, are loaded from the term file
StartCorrection ==
    /\ engine \in {"ngram", "edit"}
    /\ startup = "starting"
    /\ IF \/ ~index_file.exists
          \/ VocabularyLoaderRaises(index_file.lines)
          \/ IndexLoaderRaises(index_file.lines)
       THEN /\ startup' = "raised"
            /\ UNCHANGED <<vocabulary, inverted_index>>
       ELSE /\ vocabulary' = load_vocabulary_with_frequency(index_file.lines)
            /\ inverted_index' = load_inverted_index_correction(index_file.lines)
            /\ startup' = "ready"
    /\ UNCHANGED <<all_docs, positional_index, biword_index, outcome, last_op>>
    /\ StartupFrame

\* the queries a started program evaluates
StartupQueries ==
    CASE engine = "boolean" -> SessionBooleanQueries \cup { <<t>> : t \in SessionTerms }
      [] engine \in {"biword", "positional"} -> SessionPhrases
      [] OTHER -> SessionAlternatives

\* the first query of the started program
FirstQuery ==
    /\ startup = "ready"
    /\ last_op = NoOp
    /\ \E q \in StartupQueries :
          CASE engine = "boolean" ->
                 /\ outcome' = process_boolean_query(q, inverted_index, all_docs)
                 /\ last_op' = [op |-> "boolean", input |-> q,
                                output |-> process_boolean_query(q, inverted_index,
                                                                 all_docs).result]
                 /\ UNCHANGED <<inverted_index, positional_index, biword_index>>
            [] engine = "biword" ->
                 /\ last_op' = [op |-> "biword", input |-> q,
                                output |-> retrieve_documents(q, biword_index)]
                 /\ UNCHANGED <<outcome, inverted_index, positional_index, biword_index>>
            [] engine = "positional" ->
                 /\ last_op' = [op |-> "positional", input |-> q,
                                output |-> phrase_query(q, positional_index)]
                 /\ positional_index' = phrase_query_index(q, positional_index)
                 /\ UNCHANGED <<outcome, inverted_index, biword_index>>
            [] engine = "ngram" ->
                 /\ last_op' = [op |-> "ngram", input |-> q,
                                output |-> retrieve_documents_for_query_ngram(
                                               q, inverted_index).result]
                 /\ inverted_index' = retrieve_documents_for_query_ngram(q, inverted_index).index
                 /\ UNCHANGED <<outcome, positional_index, biword_index>>
            [] engine = "edit" ->
                 /\ last_op' = [op |-> "edit", input |-> q,
                                output |-> retrieve_documents_for_query_edit(
                                               q, inverted_index).result]
                 /\ UNCHANGED <<outcome, inverted_index, positional_index, biword_index>>
    /\ UNCHANGED <<startup, all_docs, vocabulary>>
    /\ StartupFrame

NextStartup ==
    \/ StartBoolean
    \/ StartBiword
    \/ StartPositional
    \/ StartCorrection
    \/ FirstQuery

SpecStartup == InitStartup /\ [][NextStartup]_vars

-----------------------------------------------------------------------------
(* The candidate functions of the correction engines, called on the words  *)
(* and queries of a query list over a loaded vocabulary.                   *)

\* the terms of the vocabularies: all of them near "real"
VocabularyPool ==
    {"real", "read", "reals", "realm", "areal", "meal", "deal", "seal", "heal"}

\* the most terms of a small vocabulary
MaxSmallVocabulary == 2

\* the most terms of the pool that a large vocabulary lacks
MaxLeftOut == 1

VocabularyKeys ==
    { keys \in SUBSET VocabularyPool :
        \/ Cardinality(keys) <= MaxSmallVocabulary
        \/ Cardinality(VocabularyPool \ keys) <= MaxLeftOut }

\* the vocabulary load_vocabulary_with_frequency gives for a file of the
\* terms keys, in the sorted order of save_inverted_index, in which rare has
\* document frequency rare_df, top has min_df + 1 and the others min_df
VocabularyOf(keys, rare, rare_df, top) ==
    [keys |-> SortedWords(keys),
     map  |-> [t \in keys |-> IF t = rare THEN rare_df
                              ELSE IF t = top THEN min_df + 1
                              ELSE min_df]]

Vocabularies ==
    UNION { { VocabularyOf(keys, rare, rare_df, top) :
                rare \in keys \cup {"x"}, rare_df \in {2, min_df - 1},
                top \in keys \cup {"x"} } :
            keys \in VocabularyKeys }

\* the words candidates are asked for
CandidateWords == {"real", "relal", "x"}

\* the queries alternatives are generated for
CandidateQueries ==
    { <<>>, <<"real">>, <<"x">>, <<"real", "real">>, <<"relal", "x">>,
      <<"x", "real", "relal">> }

InitCandidates ==
    /\ vocabulary \in Vocabularies
    /\ engine = "none"
    /\ inverted_index = EmptyDict
    /\ loaded_index = EmptyDict
    /\ crawled_pages = <<>>
    /\ results = EmptyDict
    /\ last_op = NoOp
    /\ all_docs = {}
    /\ query = <<>>
    /\ query_ast = NoAst
    /\ outcome = NoOutcome
    /\ positional_index = EmptyDict
    /\ biword_index = EmptyDict
    /\ the_phrase = <<>>
    /\ asked = {}
    /\ positional_result = {}
    /\ biword_result = {}
    /\ ListsIdle
    /\ BuildIdle

\* a behaviour is one call on the loaded vocabulary; the call changes nothing
\* but what it returns
CandidatesFrame ==
    /\ last_op.op = "none"
    /\ UNCHANGED <<engine, vocabulary, loaded_index, results>>
    /\ UNCHANGED vars_boolean
    /\ UNCHANGED <<vars_lists, vars_phrase, vars_build>>

CallFindJaccardCandidates ==
    /\ CandidatesFrame
    /\ \E word \in CandidateWords :
          last_op' = [op |-> "find_jaccard_candidates", input |-> <<word>>,
                      output |-> find_jaccard_candidates(word, vocabulary)]

\* find_edit_distance_candidates of ngram_jaccard_correction.py
CallFindEditDistanceCandidatesNgram ==
    /\ CandidatesFrame
    /\ \E word \in CandidateWords :
          last_op' = [op |-> "find_edit_distance_candidates_ngram", input |-> <<word>>,
                      output |-> find_edit_distance_candidates_ngram(word, vocabulary)]

\* find_edit_distance_candidates of spelling_correction_edit.py
CallFindEditDistanceCandidatesEdit ==
    /\ CandidatesFrame
    /\ \E word \in CandidateWords :
          last_op' = [op |-> "find_edit_distance_candidates_edit", input |-> <<word>>,
                      output |-> find_edit_distance_candidates_edit(word, vocabulary)]

CallGetBestCandidates ==
    /\ CandidatesFrame
    /\ \E word \in CandidateWords :
          last_op' = [op |-> "get_best_candidates", input |-> <<word>>,
                      output |-> get_best_candidates(word, vocabulary)]

\* the per-word list of generate_alternative_queries of
\* spelling_correction_edit.py
CallCorrectedTerm ==
    /\ CandidatesFrame
    /\ \E word \in CandidateWords :
          last_op' = [op |-> "corrected_term", input |-> <<word>>,
                      output |-> corrected_term(word, vocabulary)]

CallGenerateAlternativeQueriesNgram ==
    /\ CandidatesFrame
    /\ \E q \in CandidateQueries :
          last_op' = [op |-> "generate_alternative_queries_ngram", input |-> q,
                      output |-> generate_alternative_queries_ngram(q, vocabulary)]

CallGenerateAlternativeQueriesEdit ==
    /\ CandidatesFrame
    /\ \E q \in CandidateQueries :
          last_op' = [op |-> "generate_alternative_queries_edit", input |-> q,
                      output |-> generate_alternative_queries_edit(q, vocabulary)]

NextCandidates ==
    \/ CallFindJaccardCandidates
    \/ CallFindEditDistanceCandidatesNgram
    \/ CallFindEditDistanceCandidatesEdit
    \/ CallGetBestCandidates
    \/ CallCorrectedTerm
    \/ CallGenerateAlternativeQueriesNgram
    \/ CallGenerateAlternativeQueriesEdit

SpecCandidates == InitCandidates /\ [][NextCandidates]_vars

-----------------------------------------------------------------------------
(* The parser of boolean.py on arbitrary token sequences, longer than those *)
(* of SpecBoolean, over the indexes of two collections.                     *)

\* the lexemes the token sequences are written with
ParserLexemes == {"real", "AND", "or", "Not", "(", ")"}

\* the most lexemes of such a sequence
MaxParserQueryLen == 5

ParserQueries == SeqsUpTo(ParserLexemes, MaxParserQueryLen)

ParserCollections == { << <<"real">> >>, ExampleCollection }

InitParser ==
    /\ \E collection \in ParserCollections :
          inverted_index = build_inverted_index(collection)
    /\ all_docs = build_all_docs(inverted_index)
    /\ query = <<>>
    /\ query_ast = NoAst
    /\ outcome = NoOutcome
    /\ ListsIdle
    /\ PhraseIdle
    /\ CorrectionIdle
    /\ BuildIdle

\* process_boolean_query on a token sequence; each behaviour is the
\* processing of one query
ParseQuery ==
    /\ outcome = NoOutcome
    /\ \E q \in ParserQueries :
          /\ query' = q
          /\ outcome' = process_boolean_query(q, inverted_index, all_docs)
    /\ UNCHANGED <<inverted_index, all_docs, query_ast>>
    /\ UNCHANGED <<vars_lists, vars_phrase, vars_correction, vars_build>>

NextParser == ParseQuery

SpecParser == InitParser /\ [][NextParser]_vars

-----------------------------------------------------------------------------
(* C1: for every pair of ascending, duplicate-free lists, once both          *)
(* intersections of the pair have been computed, intersect_galloping has     *)
(* returned exactly the list intersect_linear has returned.                  *)
C1_GallopingEqualsLinear ==
    ({"linear", "galloping"} \subseteq measured) => result_galloping = result_linear

-----------------------------------------------------------------------------
\* the positional and biword indexes as the engines load them for the
\* crawled collection
LoadedPositionalIndex ==
    load_positional_index(save_positional_index(build_positional_index(crawled_pages)))

LoadedBiwordIndex ==
    load_biword_index(save_biword_index(build_biword_index(crawled_pages)))

(* C2: after any sequence of Boolean queries, positional or biword phrase    *)
(* queries and correction-engine retrievals, every term of the index has the *)
(* posting set that was loaded, and the positional and biword indexes are    *)
(* the loaded ones.                                                          *)
C2_QueriesLeaveIndexAsLoaded ==
    /\ DOMAIN inverted_index = DOMAIN loaded_index
    /\ \A term \in DOMAIN loaded_index : inverted_index[term] = loaded_index[term]
    /\ positional_index = LoadedPositionalIndex
    /\ biword_index = LoadedBiwordIndex

-----------------------------------------------------------------------------
\* the term index and universal set of the end-to-end scenario
ExampleIndex == build_inverted_index(ExampleCollection)

\* a query has been processed
Processed == outcome # NoOutcome

(* C3: a well-formed query returns the value of its tree under precedence   *)
(* NOT > AND > OR, left-associative AND and OR and parentheses; on the        *)
(* scenario index 'real AND madrid' is {0,1}, 'real AND NOT barcelona' {0}.  *)
C3_WellFormedQueryValue ==
    /\ (Processed /\ query_ast # NoAst) =>
          /\ ~outcome.raised
          /\ outcome.result = Eval(query_ast, inverted_index, all_docs)
    /\ (Processed /\ inverted_index = ExampleIndex) =>
          /\ all_docs = {0, 1, 2}
          /\ tokenize(query) = <<"real", "AND", "madrid">> => outcome.result = {0, 1}
          /\ tokenize(query) = <<"real", "AND", "NOT", "barcelona">>
                => outcome.result = {0}

C3_Witness ==
    /\ inverted_index = ExampleIndex
    /\ query_ast = BinNode("AND", TermNode("real"), NotNode(TermNode("barcelona")))
    /\ ~outcome.raised
    /\ outcome.result = {0}

\* an operator token
IsOperator(token) == token \in {"AND", "OR", "NOT"}

\* the token list lacks an operand: it is empty, ends in an operator, starts
\* with AND or OR, or has AND or OR right after an operator
MissingOperand(tokens) ==
    \/ tokens = <<>>
    \/ IsOperator(tokens[Len(tokens)])
    \/ tokens[1] \in {"AND", "OR"}
    \/ \E k \in 1 .. Len(tokens) - 1 :
          IsOperator(tokens[k]) /\ tokens[k + 1] \in {"AND", "OR"}

(* C4: a query with a missing operand fails the parse with an error and     *)
(* returns no posting set.                                                   *)
C4_MissingOperandRaises ==
    (Processed /\ MissingOperand(tokenize(query))) => outcome.raised

\* the nesting depth after each prefix of the tokens
RECURSIVE Depth(_, _)
Depth(tokens, k) ==
    IF k = 0 THEN 0
    ELSE Depth(tokens, k - 1)
         + (IF tokens[k] = "(" THEN 1 ELSE IF tokens[k] = ")" THEN -1 ELSE 0)

\* some ")" has no matching "(" before it
UnmatchedClose(tokens) == \E k \in 1 .. Len(tokens) : Depth(tokens, k) < 0

\* every ")" is matched and some "(" is never closed
UnmatchedOpen(tokens) == ~UnmatchedClose(tokens) /\ Depth(tokens, Len(tokens)) > 0

(* C5: a query with an unmatched parenthesis, opening or closing, fails the *)
(* parse with an error naming the expected and the actual token.             *)
C5_UnmatchedParenRaises ==
    (Processed /\ (UnmatchedOpen(tokenize(query)) \/ UnmatchedClose(tokenize(query))))
        => /\ outcome.raised
           /\ outcome.expected \in {"(", ")"}
           /\ outcome.got = current_token(tokenize(query), outcome.index)

(* C6: 'NOT t' is the universal set minus postings(t) for every term t, and *)
(* 'NOT NOT t' is exactly postings(t) for every term t of the index.         *)
C6_NotAndDoubleNot ==
    \A t \in QueryTerms :
        /\ (Processed /\ tokenize(query) = <<"NOT", t>>) =>
              /\ ~outcome.raised
              /\ outcome.result = all_docs \ Get(inverted_index, t)
        /\ (Processed /\ tokenize(query) = <<"NOT", "NOT", t>>
                      /\ t \in DOMAIN inverted_index) =>
              /\ ~outcome.raised
              /\ outcome.result = inverted_index[t]

C6_Witness ==
    /\ tokenize(query) = <<"NOT", "NOT", "barcelona">>
    /\ "barcelona" \in DOMAIN inverted_index
    /\ outcome.result = inverted_index["barcelona"]
    /\ outcome.result # {}
    /\ outcome.result # all_docs

-----------------------------------------------------------------------------
\* the number of documents of the intersection of the loaded posting sets
\* of an alternative's terms; an alternative without terms retrieves nothing
LoadedCount(alt) ==
    IF alt = <<>> THEN 0
    ELSE Cardinality({ d \in Get(loaded_index, alt[1]) :
                         \A k \in DOMAIN alt : d \in Get(loaded_index, alt[k]) })

(* C7: every alternative reported for a query has as its document count the  *)
(* number of documents of the intersection of the loaded posting sets of its *)
(* terms, the reported alternatives are in non-increasing order of the      *)
(* count, and there are at most three of them per query.                     *)
C7_ReportedCountsOfLoadedIndex ==
    \A q \in DOMAIN results :
        /\ Len(results[q]) <= kept_alternatives
        /\ \A k \in DOMAIN results[q] :
              results[q][k].doc_count = LoadedCount(results[q][k].alt)
        /\ \A k \in 1 .. Len(results[q]) - 1 :
              results[q][k].doc_count >= results[q][k + 1].doc_count

-----------------------------------------------------------------------------
\* the document IDs of the crawled collection
CrawledIds == 0 .. Len(crawled_pages) - 1

\* the words the positional engine looks up for the phrase
LookedUp == LowerWords(the_phrase)

\* the position list of word number i of the phrase in document d
PositionSet(i, d) == Range(positional_index[LookedUp[i]][d])

(* C8: positional resolution returns document d for a phrase w0..wn-1       *)
(* exactly when every wi has d in the positional index and some offset p of  *)
(* w0 in d has p+i among the offsets of wi in d for every i in 1..n-1; on    *)
(* the scenario documents the phrase 'real madrid' gives {0,1}.              *)
C8_PositionalIffContiguous ==
    /\ ("positional" \in asked /\ the_phrase # <<>>) =>
          \A d \in CrawledIds :
              d \in positional_result <=>
                 /\ \A i \in DOMAIN LookedUp : d \in DocKeys(positional_index, LookedUp[i])
                 /\ \E p \in PositionSet(1, d) :
                       \A i \in 2 .. Len(LookedUp) : p + (i - 1) \in PositionSet(i, d)
    /\ "positional" \in asked => positional_result \subseteq CrawledIds
    /\ ("positional" \in asked /\ crawled_pages = ExampleCollection
                                /\ the_phrase = <<"real", "madrid">>)
          => positional_result = {0, 1}

C8_Witness ==
    /\ "positional" \in asked
    /\ crawled_pages = ExampleCollection
    /\ the_phrase = <<"real", "madrid">>
    /\ positional_result = {0, 1}

\* the biwords the biword builder finds in document d
BiwordsOfDoc(d) == Range(process_document_biword(crawled_pages[d + 1]))

\* the number of documents of the collection that have the biword
BiwordDf(b) == Cardinality({ d \in CrawledIds : b \in BiwordsOfDoc(d) })

\* the words occur as one contiguous run in the token list
HasRun(tokens, words) ==
    \E p \in 0 .. Len(tokens) - Len(words) :
        \A i \in DOMAIN words : tokens[p + i] = words[i]

\* the stemmed words the biword engine forms its biwords from
Stemmed == [k \in DOMAIN the_phrase |-> Stem(Lower(the_phrase[k]))]

\* document d has both adjacent pairs of the 3-word phrase as biwords and no
\* contiguous run of the phrase: neither of the stemmed words in the token
\* list of the biword builder nor of the looked-up words in the token list of
\* the positional builder
PairsWithoutRun(d) ==
    /\ <<Stemmed[1], Stemmed[2]>> \in BiwordsOfDoc(d)
    /\ <<Stemmed[2], Stemmed[3]>> \in BiwordsOfDoc(d)
    /\ ~HasRun(preprocess_text_biword(crawled_pages[d + 1]), Stemmed)
    /\ ~HasRun(preprocess_text_positional(crawled_pages[d + 1]), LookedUp)

BothAsked == asked = {"positional", "biword"}

C10_PositionalWithinPrefilter ==
    "positional" \in asked =>
        \A d \in positional_result :
            \A i \in DOMAIN LookedUp : d \in DocKeys(positional_index, LookedUp[i])

C10_Witness ==
    /\ "positional" \in asked
    /\ Len(the_phrase) >= 2
    /\ positional_result # {}
    /\ \E d \in CrawledIds \ positional_result :
          \A i \in DOMAIN LookedUp : d \in DocKeys(positional_index, LookedUp[i])

-----------------------------------------------------------------------------
(* C11: for every phrase both engines have resolved, the words the           *)
(* positional engine looks up are the stemmed words from which the biword    *)
(* engine forms its biwords.                                                  *)
C11_SameNormalisedWords == BothAsked => LookedUp = Stemmed

-----------------------------------------------------------------------------
\* the index the builder of a kind returns for the crawled documents: the
\* index of the build when that builder is the one that ran
IndexBuiltBy(kind) ==
    IF builder = kind THEN built_index
    ELSE CASE kind = "term"       -> build_inverted_index(crawled_pages)
           [] kind = "biword"     -> build_biword_index(crawled_pages)
           [] kind = "positional" -> build_positional_index(crawled_pages)

\* the offsets of a term in document d according to the positional index
OffsetsIn(index, term, d) ==
    IF term \in DOMAIN index /\ d \in DOMAIN index[term] THEN Range(index[term][d]) ELSE {}

\* a build without unreadable documents has returned its index
BuiltAll == build_status = "built" /\ failing = {}

(* C12: for every document d of a finished build, a term has d in its        *)
(* term-index posting iff it has an offset for d in the positional index,    *)
(* and (t1,t2) is a biword of d iff both terms are longer than one character *)
(* and t2 has in d an offset p+1 for some offset p of t1 in d.               *)
C12_IndexesOfOneTokenSequence ==
    BuiltAll =>
        LET terms   == IndexBuiltBy("term")
            biwords == IndexBuiltBy("biword")
            offsets == IndexBuiltBy("positional")
            words   == DOMAIN terms \cup DOMAIN offsets
                         \cup { b[1] : b \in DOMAIN biwords } \cup { b[2] : b \in DOMAIN biwords }
        IN  \A d \in BuildIds :
                /\ \A t \in words :
                      (d \in Get(terms, t)) <=> (OffsetsIn(offsets, t, d) # {})
                /\ \A t1 \in words, t2 \in words :
                      (d \in Get(biwords, <<t1, t2>>))
                          <=> ( /\ StrLen(t1) > 1
                                /\ StrLen(t2) > 1
                                /\ \E pos \in OffsetsIn(offsets, t1, d) :
                                      pos + 1 \in OffsetsIn(offsets, t2, d) )

-----------------------------------------------------------------------------
\* the document ids in the posting lists of the index under construction
IndexedIds ==
    UNION { IF builder = "positional" THEN DOMAIN built_index[key] ELSE built_index[key]
              : key \in DOMAIN built_index }

(* C13: a build with a document that cannot be read still completes, and the *)
(* index it returns has the failed document neither in the document-ID map   *)
(* nor in any posting list.                                                  *)
C13_FailedDocumentSkipped ==
    /\ build_status # "raised"
    /\ build_status \in {"built", "saved", "loaded"} =>
          \A d \in failing : d \notin DOMAIN doc_id_map /\ d \notin IndexedIds

\* the index and document-ID map of the crawled documents, as functions of
\* the list of document files alone
IndexOfFiles ==
    IF builder = "biword" THEN build_biword_index(crawled_pages)
    ELSE build_positional_index(crawled_pages)

MapOfFiles == [d \in BuildIds |-> d + 1]

\* a concurrent builder has returned
ConcurrentBuilt == builder \in {"biword", "positional"} /\ build_status = "built"

(* C14: the index and the document-ID map a concurrent builder returns are   *)
(* those determined by the list of document files, whatever the order in     *)
(* which the worker tasks have completed.                                    *)
C14_BuildIndependentOfCompletionOrder ==
    ConcurrentBuilt => (built_index = IndexOfFiles /\ doc_id_map = MapOfFiles)

C14_Witness ==
    /\ ConcurrentBuilt
    /\ Len(completion_order) >= 2
    /\ completion_order[1] # 0
    /\ \E key \in DOMAIN built_index :
          /\ 0 \in (IF builder = "positional" THEN DOMAIN built_index[key] ELSE built_index[key])
          /\ 1 \notin (IF builder = "positional" THEN DOMAIN built_index[key] ELSE built_index[key])
    /\ built_index = IndexOfFiles
    /\ doc_id_map = MapOfFiles

-----------------------------------------------------------------------------
\* the key "t1_t2" of a biword in the biword file
BiwordKey(biword) == biword[1] \o "_" \o biword[2]

\* the biwords of the built index that more than one document has
KeptBiwords == { b \in DOMAIN built_index : Cardinality(built_index[b]) > 1 }

\* the index file of the build has been written, and loaded
Saved(kind) == builder = kind /\ build_status \in {"saved", "loaded"}

Loaded(kind) == builder = kind /\ build_status = "loaded"

(* C15: the saved biword file has exactly the biwords of document frequency  *)
(* greater than 1, and the loaded index maps the key 't1_t2' of each of them *)
(* to its document set and has no other key, so that the biwords missing     *)
(* after the round trip are exactly those of document frequency <= 1.        *)
C15_BiwordRoundTripPrunes ==
    /\ Saved("biword") =>
          { index_file.lines[k][1] : k \in DOMAIN index_file.lines }
              = { BiwordKey(b) : b \in KeptBiwords }
    /\ Loaded("biword") =>
          /\ DOMAIN biword_index = { BiwordKey(b) : b \in KeptBiwords }
          /\ \A b \in KeptBiwords : biword_index[BiwordKey(b)] = built_index[b]
          /\ \A b \in DOMAIN built_index :
                (BiwordKey(b) \notin DOMAIN biword_index) <=> (Cardinality(built_index[b]) <= 1)

C15_Witness ==
    /\ Loaded("biword")
    /\ KeptBiwords # {}
    /\ DOMAIN built_index \ KeptBiwords # {}
    /\ \A b \in KeptBiwords : biword_index[BiwordKey(b)] = built_index[b]

\* the doc_ids of a posting-list field of the term file, in file order
FilePostings(field) ==
    LET pieces == SplitComma(field) IN [k \in DOMAIN pieces |-> IntOfStr(pieces[k])]

(* C16: the loaded term index equals the built one, and the term file lists  *)
(* the terms in sorted order, each posting list ascending without duplicates *)
(* and each df field equal to the length of its posting list.                *)
C16_TermRoundTrip ==
    /\ Saved("term") =>
          LET lines == index_file.lines
          IN  /\ \A k \in 1 .. Len(lines) - 1 : Rank(lines[k][1]) < Rank(lines[k + 1][1])
              /\ \A k \in DOMAIN lines :
                    LET doc_ids == FilePostings(lines[k][3])
                    IN  /\ \A i \in 1 .. Len(doc_ids) - 1 : doc_ids[i] < doc_ids[i + 1]
                        /\ IntOfStr(lines[k][2]) = Len(doc_ids)
    /\ Loaded("term") => inverted_index = built_index

C16_Witness ==
    /\ Loaded("term")
    /\ Cardinality(DOMAIN built_index) >= 3
    /\ \E t \in DOMAIN built_index : Cardinality(built_index[t]) >= 2
    /\ inverted_index = built_index

(* C17: the loaded positional index equals the built one, term by term and   *)
(* document by document, with every offset list in the same ascending order. *)
C17_PositionalRoundTrip ==
    Loaded("positional") =>
        /\ positional_index = built_index
        /\ \A t \in DOMAIN positional_index : \A d \in DOMAIN positional_index[t] :
              \A i \in 1 .. Len(positional_index[t][d]) - 1 :
                  positional_index[t][d][i] < positional_index[t][d][i + 1]

C17_Witness ==
    /\ Loaded("positional")
    /\ \E t \in DOMAIN built_index :
          /\ Cardinality(DOMAIN built_index[t]) >= 2
          /\ \E d \in DOMAIN built_index[t] : Len(built_index[t][d]) >= 2
    /\ positional_index = built_index


-----------------------------------------------------------------------------
\* the fewest fields of a well-formed line for the loader a program starts
\* with: term, df and postings for boolean.py, term and df for the
\* vocabulary of a correction engine, term and one posting for the
\* positional engine
MinFields(program) == IF program = "boolean" THEN 3 ELSE 2

\* the well-formed lines of the index file
WellFormedLines ==
    SelectSeq(index_file.lines, LAMBDA line : Len(line) >= MinFields(engine))

\* every line of the file is a line the builder saved or has fewer than the
\* minimum fields
OnlyShortLinesAdded ==
    \A k \in DOMAIN index_file.lines :
        \/ index_file.lines[k] \in Range(SavedLines(FileKind(engine)))
        \/ Len(index_file.lines[k]) < MinFields(engine)

(* C18: the term-index loader of boolean.py, the vocabulary loader and the   *)
(* positional-index loader, given a file some of whose lines are blank or    *)
(* have fewer than the minimum fields, do not raise and load what the        *)
(* well-formed lines alone give.                                             *)
C18_MalformedLinesSkipped ==
    ( /\ engine \in {"boolean", "ngram", "edit", "positional"}
      /\ index_file.exists
      /\ OnlyShortLinesAdded
      /\ startup # "starting" )
    => /\ startup # "raised"
       /\ engine = "boolean" => inverted_index = load_inverted_index(WellFormedLines)
       /\ engine \in {"ngram", "edit"} =>
              vocabulary = load_vocabulary_with_frequency(WellFormedLines)
       /\ engine = "positional" =>
              positional_index = load_positional_index(WellFormedLines)

-----------------------------------------------------------------------------
(* C19 as claimed: when the index file does not exist, loading it ends in an *)
(* error and no loader returns an index.                                     *)
C19_MissingFileRaises ==
    (~index_file.exists /\ startup # "starting") => startup = "raised"

(* C19 as amended: when the index file does not exist, no query is           *)
(* evaluated: the loaders of boolean.py and of the correction engines raise, *)
(* and the loaders of the phrase engines return an empty index on which main *)
(* returns before its first query.                                           *)
C19_MissingFileNoQuery ==
    ~index_file.exists =>
        /\ last_op = NoOp
        /\ startup # "ready"
        /\ startup # "starting" =>
               startup = IF engine \in {"biword", "positional"} THEN "stopped"
                         ELSE "raised"

C19_Witness ==
    /\ ~index_file.exists
    /\ engine = "biword"
    /\ startup = "stopped"
    /\ biword_index = EmptyDict
    /\ last_op = NoOp

-----------------------------------------------------------------------------
\* the first query was a single Boolean term that the term index lacks
BooleanMiss ==
    /\ last_op.op = "boolean"
    /\ Len(last_op.input) = 1
    /\ Standardize(last_op.input[1]) \notin DOMAIN load_inverted_index(index_file.lines)

\* the first query was a phrase one of whose biwords the biword index lacks
BiwordMiss ==
    /\ last_op.op = "biword"
    /\ \E k \in DOMAIN phrase_to_biwords(last_op.input) :
          phrase_to_biwords(last_op.input)[k]
              \notin DOMAIN load_biword_index(index_file.lines)

\* the first query was a phrase one of whose words the positional index lacks
PositionalMiss ==
    /\ last_op.op = "positional"
    /\ \E k \in DOMAIN last_op.input :
          LowerWords(last_op.input)[k]
              \notin DOMAIN load_positional_index(index_file.lines)

(* C20: a Boolean term absent from the term index evaluates to the empty    *)
(* set, and a phrase with a biword or word absent from the biword or         *)
(* positional index resolves to the empty set; nothing is raised and the     *)
(* index is the loaded one, without a new key.                               *)
C20_LookupMissIsEmpty ==
    (BooleanMiss \/ BiwordMiss \/ PositionalMiss) =>
        /\ last_op.output = {}
        /\ ~outcome.raised
        /\ last_op.op = "boolean" =>
               inverted_index = load_inverted_index(index_file.lines)
        /\ last_op.op = "biword" =>
               biword_index = load_biword_index(index_file.lines)
        /\ last_op.op = "positional" =>
               positional_index = load_positional_index(index_file.lines)

C20_Witness ==
    /\ BiwordMiss
    /\ \E k \in DOMAIN phrase_to_biwords(last_op.input) :
          Get(biword_index, phrase_to_biwords(last_op.input)[k]) # {}
    /\ last_op.output = {}

-----------------------------------------------------------------------------
\* the word a candidate function was last called on
AskedWord == last_op.input[1]

C22_AtMostMaxAlternatives ==
    last_op.op \in {"generate_alternative_queries_ngram",
                    "generate_alternative_queries_edit"}
        => Len(last_op.output) <= max_alternatives

(* C23: find_edit_distance_candidates of either engine, called with its     *)
(* defaults on the word relal over a vocabulary in which real has document   *)
(* frequency 2, returns a list that holds real.                              *)
C23_RelalGivesReal ==
    ( /\ last_op.op \in {"find_edit_distance_candidates_ngram",
                         "find_edit_distance_candidates_edit"}
      /\ AskedWord = "relal"
      /\ "real" \in DOMAIN vocabulary.map
      /\ vocabulary.map["real"] = 2 )
    => "real" \in Range(last_op.output)

-----------------------------------------------------------------------------
\* the Jaccard similarity of the asked word and a term, as <<num, den>>
Similarity(term) ==
    jaccard_similarity(combined_ngrams(AskedWord), combined_ngrams(term))

\* the term passes the two thresholds of find_jaccard_candidates
Qualifies(term) ==
    /\ vocabulary.map[term] >= min_df
    /\ Similarity(term)[1] * min_similarity_den
           >= min_similarity_num * Similarity(term)[2]

\* term a is ranked strictly before term b: more similar, or as similar and
\* in more documents
Outranks(a, b) ==
    \/ Similarity(a)[1] * Similarity(b)[2] > Similarity(b)[1] * Similarity(a)[2]
    \/ /\ Similarity(a)[1] * Similarity(b)[2] = Similarity(b)[1] * Similarity(a)[2]
       /\ vocabulary.map[a] > vocabulary.map[b]

(* C27: find_jaccard_candidates returns at most top_n vocabulary terms, each *)
(* with df >= min_df and similarity >= min_similarity, none twice, in the    *)
(* order of similarity descending and then df descending; a qualifying term  *)
(* is left out only of a full list none of whose terms it outranks.          *)
C27_JaccardCandidatesRanked ==
    last_op.op = "find_jaccard_candidates" =>
        LET out == last_op.output
        IN  /\ Len(out) <= jaccard_top_n
            /\ \A k \in DOMAIN out :
                  out[k] \in DOMAIN vocabulary.map /\ Qualifies(out[k])
            /\ \A i, j \in DOMAIN out : i < j =>
                  out[i] # out[j] /\ ~Outranks(out[j], out[i])
            /\ \A term \in DOMAIN vocabulary.map :
                  (Qualifies(term) /\ term \notin Range(out)) =>
                      /\ Len(out) = jaccard_top_n
                      /\ \A k \in DOMAIN out : ~Outranks(term, out[k])

C27_Witness ==
    /\ last_op.op = "find_jaccard_candidates"
    /\ Len(last_op.output) = jaccard_top_n
    /\ \E term \in DOMAIN vocabulary.map :
          Qualifies(term) /\ term \notin Range(last_op.output)
    /\ \E i, j \in DOMAIN last_op.output :
          i < j /\ Outranks(last_op.output[i], last_op.output[j])

-----------------------------------------------------------------------------
(* C24: once boolean.py has loaded the term index, the universal set it      *)
(* evaluates NOT with holds a document ID iff the ID is in the posting set   *)
(* of at least one term of the loaded index.                                 *)
C24_UniversalSetIsUnionOfPostings ==
    (engine = "boolean" /\ startup = "ready") =>
        /\ \A d \in all_docs : \E t \in DOMAIN inverted_index : d \in inverted_index[t]
        /\ \A t \in DOMAIN inverted_index : inverted_index[t] \subseteq all_docs

C24_Witness ==
    /\ engine = "boolean"
    /\ startup = "ready"
    /\ Cardinality(all_docs) >= 2
    /\ \E t \in DOMAIN inverted_index : inverted_index[t] # all_docs
    /\ Cardinality(DOMAIN inverted_index) # Cardinality(all_docs)

-----------------------------------------------------------------------------
\* what intersecting the pair gives when one of the lists has one element
SingleElementValue ==
    IF Len(list1) = 1
    THEN (IF list1[1] \in Range(list2) THEN list1 ELSE <<>>)
    ELSE (IF list2[1] \in Range(list1) THEN list2 ELSE <<>>)

(* C25: in both intersection algorithms an empty operand gives the empty     *)
(* result, and a single-element operand [x], in either argument position,    *)
(* gives [x] when x is in the other list and [] otherwise.                   *)
C25_EmptyAndSingleOperand ==
    /\ ("linear" \in measured /\ (list1 = <<>> \/ list2 = <<>>)) => result_linear = <<>>
    /\ ("galloping" \in measured /\ (list1 = <<>> \/ list2 = <<>>))
           => result_galloping = <<>>
    /\ ("linear" \in measured /\ (Len(list1) = 1 \/ Len(list2) = 1))
           => result_linear = SingleElementValue
    /\ ("galloping" \in measured /\ (Len(list1) = 1 \/ Len(list2) = 1))
           => result_galloping = SingleElementValue

-----------------------------------------------------------------------------
(* C28: for ascending, duplicate-free lists the list intersect_galloping    *)
(* returns is ascending and duplicate-free and every element of it is in     *)
(* both lists.                                                               *)
C28_GallopingSound ==
    "galloping" \in measured =>
        /\ \A i, j \in DOMAIN result_galloping :
              i < j => result_galloping[i] < result_galloping[j]
        /\ \A k \in DOMAIN result_galloping :
              /\ result_galloping[k] \in Range(list1)
              /\ result_galloping[k] \in Range(list2)

C28_Witness ==
    /\ "galloping" \in measured
    /\ Len(list1) > Len(list2)
    /\ Len(result_galloping) >= 2
    /\ Range(list2) \ Range(list1) # {}

-----------------------------------------------------------------------------
\* a step in which a worker task finishes
WorkerStep == completion_order' # completion_order

\* a step that writes the shared index or the document-ID map
SharedWrite == built_index' # built_index \/ doc_id_map' # doc_id_map

\* what a step of a concurrent build may do to the shared structures
CoordinatorWritesOnly ==
    builder \in {"biword", "positional"} =>
        /\ WorkerStep => (~SharedWrite /\ merged' = merged)
        /\ SharedWrite =>
              /\ ~WorkerStep
              /\ merged \notin DOMAIN doc_id_map
              /\ merged \in Range(completion_order)
              /\ merged' = merged + 1
              /\ DOMAIN doc_id_map' = DOMAIN doc_id_map \cup {merged}

(* C26: in a concurrent build a step in which a worker task finishes writes  *)
(* neither the shared index nor the document-ID map, and every write of them *)
(* is the coordinating loop merging the next future in the order of          *)
(* submission, a document not merged before and never merged again.          *)
C26_OnlyCoordinatorWrites == [][CoordinatorWritesOnly]_vars

C26_Witness ==
    /\ builder \in {"biword", "positional"}
    /\ Len(completion_order) >= 2
    /\ completion_order[1] # 0
    /\ merged >= 1
    /\ merged < Len(completion_order)
    /\ DOMAIN doc_id_map = 0 .. merged - 1

-----------------------------------------------------------------------------
(* C29: whenever process_boolean_query returns a posting set, the cursor of *)
(* the parser is past the last token of the query: no token is left          *)
(* unconsumed.                                                               *)
C29_AllTokensConsumed ==
    (Processed /\ ~outcome.raised) => outcome.index >= Len(tokenize(query))

-----------------------------------------------------------------------------
\* the parser of the processed query
ProcessedParser ==
    [tokens |-> tokenize(query), inverted_index |-> inverted_index, all_docs |-> all_docs]

\* a call of a parser method at cursor i has raised, or has returned a subset
\* of the universal set with the cursor moved on, by at least one token and
\* to no further than one place past the last token
Advances(i, r) ==
    \/ r.raised
    \/ /\ r.index > i
       /\ r.index <= Len(tokenize(query)) + 1
       /\ r.result \subseteq all_docs

(* C30: the parser terminates on every token sequence, returning a set or    *)
(* raising: every call of parse_or, parse_and, parse_not and parse_primary   *)
(* that does not raise, at whatever cursor, moves the cursor on by at least  *)
(* one token, each iteration of the OR and AND loops included, and every set *)
(* returned is a subset of the universal set.                                *)
C30_ParserAdvancesAndTerminates ==
    Processed =>
        /\ outcome.raised \/ outcome.result \subseteq all_docs
        /\ outcome.raised \/ outcome.index \in 1 .. Len(tokenize(query)) + 1
        /\ \A i \in 0 .. Len(tokenize(query)) :
              /\ Advances(i, parse_or(ProcessedParser, i))
              /\ Advances(i, parse_and(ProcessedParser, i))
              /\ Advances(i, parse_not(ProcessedParser, i))
              /\ Advances(i, parse_primary(ProcessedParser, i))
              /\ LET acc == parse_and(ProcessedParser, i)
                 IN  (~acc.raised /\ current_token(tokenize(query), acc.index) = "OR")
                         => Advances(acc.index, OrLoop(ProcessedParser, acc))
              /\ LET acc == parse_not(ProcessedParser, i)
                 IN  (~acc.raised /\ current_token(tokenize(query), acc.index) = "AND")
                         => Advances(acc.index, AndLoop(ProcessedParser, acc))

C30_Witness ==
    /\ Processed
    /\ ~outcome.raised
    /\ Len(tokenize(query)) >= 5
    /\ tokenize(query)[1] = "("
    /\ "OR" \in Range(tokenize(query))
    /\ outcome.index = Len(tokenize(query))
    /\ outcome.result # {}

=============================================================================
